---- MODULE Spec2Model ----
(***************************************************************************)
(* Model of the projection / simulation engine of the financial           *)
(* calculator (src/utils/calculations.ts, shipped inside                   *)
(* src/quick-deploy.sh, lines 1997-2392).                                  *)
(*                                                                         *)
(* Numbers.  The engine computes on JavaScript numbers.  The model          *)
(* represents a number as a pair <<n, d>>:                                 *)
(*   d > 0          the rational n/d in lowest terms,                      *)
(*   <<1, 0>>       +Infinity,   <<-1, 0>>  -Infinity,   <<0, 0>>  NaN.    *)
(* Arithmetic on finite values is exact (the rounding of IEEE doubles is   *)
(* abstracted away); division by zero, Infinity and NaN propagate as in    *)
(* JavaScript.  The sign of zero is not modelled: every zero divisor the   *)
(* modelled inputs produce is +0 (x - x, or 0 * 12).                       *)
(***************************************************************************)
EXTENDS Integers, Sequences, FiniteSets, TLC

VARIABLES
  now,      \* the host clock: what new Date().getFullYear() returns
  pc,       \* "idle", or the engine function that is executing
  callerInputs,  \* the CalculatorInputs record passed to the executing / last call
  locals,   \* the locals of the executing function
  call,     \* the call completed last, [fn, args, ret], until the caller drops it
  prev,     \* the completed call before it, when the caller chained the two
  ui        \* the FinancialCalculator component: its state, its timers, the time

----------------------------------------------------------------------------
(* JavaScript number arithmetic *)

Abs(a) == IF a < 0 THEN -a ELSE a

Sgn(a) == IF a < 0 THEN -1 ELSE IF a > 0 THEN 1 ELSE 0

RECURSIVE GCD(_, _)
GCD(a, b) == IF b = 0 THEN a ELSE GCD(b, a % b)

\* the rational n/d (d > 0) in lowest terms
R(n, d) ==
  LET g == GCD(Abs(n), d) IN <<n \div g, d \div g>>

Num(k) == <<k, 1>>

NaN == <<0, 0>>
PosInf == <<1, 0>>
NegInf == <<-1, 0>>
Zero == <<0, 1>>
One == <<1, 1>>

IsNaN(x) == x = NaN
IsFinite(x) == x[2] > 0
IsInf(x) == x[2] = 0 /\ x[1] # 0

Neg(x) == <<-x[1], x[2]>>

Add(x, y) ==
  IF IsNaN(x) \/ IsNaN(y) THEN NaN
  ELSE IF IsInf(x) /\ IsInf(y) THEN (IF x = y THEN x ELSE NaN)
  ELSE IF IsInf(x) THEN x
  ELSE IF IsInf(y) THEN y
  ELSE LET g == GCD(x[2], y[2])
       IN R(x[1] * (y[2] \div g) + y[1] * (x[2] \div g), (x[2] \div g) * y[2])

Sub(x, y) == Add(x, Neg(y))

Mul(x, y) ==
  IF IsNaN(x) \/ IsNaN(y) THEN NaN
  ELSE IF IsInf(x) \/ IsInf(y)
       THEN (IF x[1] = 0 \/ y[1] = 0 THEN NaN ELSE <<Sgn(x[1]) * Sgn(y[1]), 0>>)
  ELSE IF x[1] = 0 \/ y[1] = 0 THEN Zero
  ELSE LET g1 == GCD(Abs(x[1]), y[2])
           g2 == GCD(Abs(y[1]), x[2])
       IN <<(x[1] \div g1) * (y[1] \div g2), (x[2] \div g2) * (y[2] \div g1)>>

Div(x, y) ==
  IF IsNaN(x) \/ IsNaN(y) THEN NaN
  ELSE IF IsInf(y) THEN (IF IsInf(x) THEN NaN ELSE Zero)
  ELSE IF y[1] = 0 THEN <<Sgn(x[1]), 0>>          \* x / 0: NaN, +Infinity or -Infinity
  ELSE IF IsInf(x) THEN <<Sgn(x[1]) * Sgn(y[1]), 0>>
  ELSE Mul(x, <<Sgn(y[1]) * y[2], Abs(y[1])>>)

\* x < y, x <= y, x > y, x >= y of JavaScript: false whenever an operand is NaN
Lt(x, y) ==
  IF IsNaN(x) \/ IsNaN(y) \/ x = y THEN FALSE
  ELSE IF x = NegInf \/ y = PosInf THEN TRUE
  ELSE IF x = PosInf \/ y = NegInf THEN FALSE
  ELSE LET g == GCD(x[2], y[2])
       IN x[1] * (y[2] \div g) < y[1] * (x[2] \div g)

Le(x, y) == ~IsNaN(x) /\ ~IsNaN(y) /\ (x = y \/ Lt(x, y))
Gt(x, y) == Lt(y, x)
Ge(x, y) == Le(y, x)

\* Math.min, Math.max: NaN when an argument is NaN
MathMin(x, y) == IF IsNaN(x) \/ IsNaN(y) THEN NaN ELSE IF Lt(y, x) THEN y ELSE x
MathMax(x, y) == IF IsNaN(x) \/ IsNaN(y) THEN NaN ELSE IF Lt(x, y) THEN y ELSE x

RECURSIVE IPow(_, _)
IPow(a, k) == IF k = 0 THEN 1 ELSE a * IPow(a, k - 1)

\* Math.pow(x, k) for an integer exponent k
MathPow(x, k) ==
  IF k = 0 THEN One
  ELSE IF IsNaN(x) THEN NaN
  ELSE IF k > 0
       THEN (IF IsInf(x) THEN (IF x = NegInf /\ k % 2 = 1 THEN NegInf ELSE PosInf)
             ELSE <<IPow(x[1], k), IPow(x[2], k)>>)
  ELSE Div(One, IF IsInf(x) THEN PosInf ELSE <<IPow(x[1], -k), IPow(x[2], -k)>>)

\* Math.floor(n * p / q) for natural n
MathFloor(n, p, q) == (n * p) \div q

----------------------------------------------------------------------------
(* Formula primitives *)
\* futureValue counting one payment a year in its zero-rate branch
futureValue_YearlyPayments(principal, monthlyPayment, annualRate, years) ==
  LET monthlyRate == Div(annualRate, Num(12))
      months == years * 12
  IN IF monthlyRate = Zero
     THEN Add(principal, Mul(monthlyPayment, Num(years)))
     ELSE LET growth == MathPow(Add(One, monthlyRate), months)
              futureValueOfPrincipal == Mul(principal, growth)
              futureValueOfPayments ==
                Mul(monthlyPayment, Div(Sub(growth, One), monthlyRate))
          IN Add(futureValueOfPrincipal, futureValueOfPayments)


futureValue(principal, monthlyPayment, annualRate, years) ==
  LET monthlyRate == Div(annualRate, Num(12))
      months == years * 12
  IN IF monthlyRate = Zero
     THEN Add(principal, Mul(monthlyPayment, Num(months)))
     ELSE LET growth == MathPow(Add(One, monthlyRate), months)
              futureValueOfPrincipal == Mul(principal, growth)
              futureValueOfPayments ==
                Mul(monthlyPayment, Div(Sub(growth, One), monthlyRate))
          IN Add(futureValueOfPrincipal, futureValueOfPayments)

\* presentValue as it would be if it discounted monthly, as futureValue compounds
presentValue_Monthly(fv, annualRate, years) ==
  IF annualRate = Zero THEN fv
  ELSE Div(fv, MathPow(Add(One, Div(annualRate, Num(12))), years * 12))

presentValue(fv, annualRate, years) ==
  IF annualRate = Zero THEN fv
  ELSE Div(fv, MathPow(Add(One, annualRate), years))

inflationAdjustedValue(amount, inflationRate, years) ==
  Div(amount, MathPow(Add(One, inflationRate), years))

sustainableWithdrawalRate(totalSavings, yearsInRetirement, annualReturn) ==
  IF annualReturn = Zero
  THEN Div(totalSavings, Num(yearsInRetirement * 12))
  ELSE LET monthlyRate == Div(annualReturn, Num(12))
           months == yearsInRetirement * 12
       IN Div(Mul(totalSavings, monthlyRate),
              Sub(One, MathPow(Add(One, monthlyRate), -months)))

salaryProjection(currentSalary, growthRate, years) ==
  Mul(currentSalary, MathPow(Add(One, growthRate), years))

\* calculateEmployerMatch without the limit on the matched share of the salary
calculateEmployerMatch_Uncapped(monthlySalary, employeeContribution, matchPercent, matchLimit) ==
  Mul(employeeContribution, matchPercent)

calculateEmployerMatch(monthlySalary, employeeContribution, matchPercent, matchLimit) ==
  LET maxMatchAmount == Mul(monthlySalary, matchLimit)
      matchAmount == Mul(employeeContribution, matchPercent)
  IN MathMin(matchAmount, maxMatchAmount)

\* the inflation-adjusted rate of return calculateRequiredSavings solves at
realRateOfReturn(annualReturn, inflationRate) ==
  Sub(Div(Add(One, annualReturn), Add(One, inflationRate)), One)

\* calculateRequiredSavings as it would be if it solved at the nominal rate
calculateRequiredSavings_NominalRate(targetAmount, currentSavings, annualReturn, years, inflationRate) ==
  LET monthlyRate == Div(annualReturn, Num(12))
      months == years * 12
  IN IF monthlyRate = Zero
     THEN Div(Sub(targetAmount, currentSavings), Num(months))
     ELSE LET growth == MathPow(Add(One, monthlyRate), months)
              futureValueOfCurrent == Mul(currentSavings, growth)
              remainingNeeded == Sub(targetAmount, futureValueOfCurrent)
          IN IF Le(remainingNeeded, Zero) THEN Zero
             ELSE Div(Mul(remainingNeeded, monthlyRate), Sub(growth, One))

calculateRequiredSavings(targetAmount, currentSavings, annualReturn, years, inflationRate) ==
  LET realReturn == Sub(Div(Add(One, annualReturn), Add(One, inflationRate)), One)
      monthlyRate == Div(realReturn, Num(12))
      months == years * 12
  IN IF monthlyRate = Zero
     THEN Div(Sub(targetAmount, currentSavings), Num(months))
     ELSE LET growth == MathPow(Add(One, monthlyRate), months)
              futureValueOfCurrent == Mul(currentSavings, growth)
              remainingNeeded == Sub(targetAmount, futureValueOfCurrent)
          IN IF Le(remainingNeeded, Zero) THEN Zero
             ELSE Div(Mul(remainingNeeded, monthlyRate), Sub(growth, One))

----------------------------------------------------------------------------
(* Year-by-year projector: calculateProjections *)

\* projectionStart as it would be if the running total lived outside the
\* function and were not reset on entry
projectionStart_KeepsTotal(inputs) ==
  [ year                |-> 0,
    currentSalary       |-> inputs.currentSalary,
    totalSavings        |-> inputs.currentSavings,
    monthlyContribution |-> inputs.monthlyContribution,
    totalContributions  |-> IF call.fn = "calculateProjections"
                            THEN call.ret.totalContributions ELSE Zero,
    totalInterestEarned |-> Zero,
    yearlyData          |-> << >> ]

\* projectionStart as it would be if the balance started from nothing
projectionStart_ZeroBalance(inputs) ==
  [ year                |-> 0,
    currentSalary       |-> inputs.currentSalary,
    totalSavings        |-> Zero,
    monthlyContribution |-> inputs.monthlyContribution,
    totalContributions  |-> Zero,
    totalInterestEarned |-> Zero,
    yearlyData          |-> << >> ]

\* the locals of calculateProjections before the first loop iteration
projectionStart(inputs) ==
  [ year                |-> 0,
    currentSalary       |-> inputs.currentSalary,
    totalSavings        |-> inputs.currentSavings,
    monthlyContribution |-> inputs.monthlyContribution,
    totalContributions  |-> Zero,
    totalInterestEarned |-> Zero,
    yearlyData          |-> << >> ]

\* projectionIteration with the year's contributions left out of the balance
projectionIteration_NoContribution(inputs, s, fullYear) ==
  LET year == s.year
      age == inputs.currentAge + year
      currentYear == fullYear + year
      currentSalary ==
        IF year > 0
        THEN salaryProjection(inputs.currentSalary, inputs.salaryGrowthRate, year)
        ELSE s.currentSalary
      monthlyContribution ==
        IF year > 0
        THEN Mul(inputs.monthlyContribution,
                 MathPow(Add(One, inputs.contributionIncreaseRate), year))
        ELSE s.monthlyContribution
      monthlyEmployerMatch ==
        calculateEmployerMatch(Div(currentSalary, Num(12)), monthlyContribution,
                               inputs.employerMatchPercent, inputs.employerMatchLimit)
      totalMonthlyContribution == Add(monthlyContribution, monthlyEmployerMatch)
      annualContribution == Mul(totalMonthlyContribution, Num(12))
      previousBalance == s.totalSavings
      interestEarned == Mul(previousBalance, inputs.expectedReturn)
      totalSavings == Add(previousBalance, interestEarned)
      inflationAdjustedSavings ==
        inflationAdjustedValue(totalSavings, inputs.inflationRate, year)
  IN [ year                |-> year + 1,
       currentSalary       |-> currentSalary,
       totalSavings        |-> totalSavings,
       monthlyContribution |-> monthlyContribution,
       totalContributions  |-> Add(s.totalContributions, annualContribution),
       totalInterestEarned |-> Add(s.totalInterestEarned, interestEarned),
       yearlyData          |->
         Append(s.yearlyData,
                [ age                           |-> age,
                  year                          |-> currentYear,
                  salary                        |-> currentSalary,
                  monthlyContribution           |-> monthlyContribution,
                  employerMatch                 |-> monthlyEmployerMatch,
                  totalContribution             |-> annualContribution,
                  totalSavings                  |-> totalSavings,
                  totalSavingsInflationAdjusted |-> inflationAdjustedSavings,
                  interestEarned                |-> interestEarned ]) ]

\* projectionIteration with interest earned on the year's contributions too
projectionIteration_InterestOnContributions(inputs, s, fullYear) ==
  LET year == s.year
      age == inputs.currentAge + year
      currentYear == fullYear + year
      currentSalary ==
        IF year > 0
        THEN salaryProjection(inputs.currentSalary, inputs.salaryGrowthRate, year)
        ELSE s.currentSalary
      monthlyContribution ==
        IF year > 0
        THEN Mul(inputs.monthlyContribution,
                 MathPow(Add(One, inputs.contributionIncreaseRate), year))
        ELSE s.monthlyContribution
      monthlyEmployerMatch ==
        calculateEmployerMatch(Div(currentSalary, Num(12)), monthlyContribution,
                               inputs.employerMatchPercent, inputs.employerMatchLimit)
      totalMonthlyContribution == Add(monthlyContribution, monthlyEmployerMatch)
      annualContribution == Mul(totalMonthlyContribution, Num(12))
      previousBalance == s.totalSavings
      interestEarned ==
        Mul(Add(previousBalance, annualContribution), inputs.expectedReturn)
      totalSavings == Add(Add(previousBalance, annualContribution), interestEarned)
      inflationAdjustedSavings ==
        inflationAdjustedValue(totalSavings, inputs.inflationRate, year)
  IN [ year                |-> year + 1,
       currentSalary       |-> currentSalary,
       totalSavings        |-> totalSavings,
       monthlyContribution |-> monthlyContribution,
       totalContributions  |-> Add(s.totalContributions, annualContribution),
       totalInterestEarned |-> Add(s.totalInterestEarned, interestEarned),
       yearlyData          |->
         Append(s.yearlyData,
                [ age                           |-> age,
                  year                          |-> currentYear,
                  salary                        |-> currentSalary,
                  monthlyContribution           |-> monthlyContribution,
                  employerMatch                 |-> monthlyEmployerMatch,
                  totalContribution             |-> annualContribution,
                  totalSavings                  |-> totalSavings,
                  totalSavingsInflationAdjusted |-> inflationAdjustedSavings,
                  interestEarned                |-> interestEarned ]) ]

\* one iteration of the for loop; fullYear is new Date().getFullYear() as read
\* by this iteration
\* projectionIteration as it would be if every entry carried the calendar year
\* read, without the loop index added
projectionIteration_YearWithoutOffset(inputs, s, fullYear) ==
  LET year == s.year
      age == inputs.currentAge + year
      currentYear == fullYear
      currentSalary ==
        IF year > 0
        THEN salaryProjection(inputs.currentSalary, inputs.salaryGrowthRate, year)
        ELSE s.currentSalary
      monthlyContribution ==
        IF year > 0
        THEN Mul(inputs.monthlyContribution,
                 MathPow(Add(One, inputs.contributionIncreaseRate), year))
        ELSE s.monthlyContribution
      monthlyEmployerMatch ==
        calculateEmployerMatch(Div(currentSalary, Num(12)), monthlyContribution,
                               inputs.employerMatchPercent, inputs.employerMatchLimit)
      totalMonthlyContribution == Add(monthlyContribution, monthlyEmployerMatch)
      annualContribution == Mul(totalMonthlyContribution, Num(12))
      previousBalance == s.totalSavings
      interestEarned == Mul(previousBalance, inputs.expectedReturn)
      totalSavings == Add(Add(previousBalance, annualContribution), interestEarned)
      inflationAdjustedSavings ==
        inflationAdjustedValue(totalSavings, inputs.inflationRate, year)
  IN [ year                |-> year + 1,
       currentSalary       |-> currentSalary,
       totalSavings        |-> totalSavings,
       monthlyContribution |-> monthlyContribution,
       totalContributions  |-> Add(s.totalContributions, annualContribution),
       totalInterestEarned |-> Add(s.totalInterestEarned, interestEarned),
       yearlyData          |->
         Append(s.yearlyData,
                [ age                           |-> age,
                  year                          |-> currentYear,
                  salary                        |-> currentSalary,
                  monthlyContribution           |-> monthlyContribution,
                  employerMatch                 |-> monthlyEmployerMatch,
                  totalContribution             |-> annualContribution,
                  totalSavings                  |-> totalSavings,
                  totalSavingsInflationAdjusted |-> inflationAdjustedSavings,
                  interestEarned                |-> interestEarned ]) ]

projectionIteration(inputs, s, fullYear) ==
  LET year == s.year
      age == inputs.currentAge + year
      currentYear == fullYear + year
      currentSalary ==
        IF year > 0
        THEN salaryProjection(inputs.currentSalary, inputs.salaryGrowthRate, year)
        ELSE s.currentSalary
      monthlyContribution ==
        IF year > 0
        THEN Mul(inputs.monthlyContribution,
                 MathPow(Add(One, inputs.contributionIncreaseRate), year))
        ELSE s.monthlyContribution
      monthlyEmployerMatch ==
        calculateEmployerMatch(Div(currentSalary, Num(12)), monthlyContribution,
                               inputs.employerMatchPercent, inputs.employerMatchLimit)
      totalMonthlyContribution == Add(monthlyContribution, monthlyEmployerMatch)
      annualContribution == Mul(totalMonthlyContribution, Num(12))
      previousBalance == s.totalSavings
      interestEarned == Mul(previousBalance, inputs.expectedReturn)
      totalSavings == Add(Add(previousBalance, annualContribution), interestEarned)
      inflationAdjustedSavings ==
        inflationAdjustedValue(totalSavings, inputs.inflationRate, year)
  IN [ year                |-> year + 1,
       currentSalary       |-> currentSalary,
       totalSavings        |-> totalSavings,
       monthlyContribution |-> monthlyContribution,
       totalContributions  |-> Add(s.totalContributions, annualContribution),
       totalInterestEarned |-> Add(s.totalInterestEarned, interestEarned),
       yearlyData          |->
         Append(s.yearlyData,
                [ age                           |-> age,
                  year                          |-> currentYear,
                  salary                        |-> currentSalary,
                  monthlyContribution           |-> monthlyContribution,
                  employerMatch                 |-> monthlyEmployerMatch,
                  totalContribution             |-> annualContribution,
                  totalSavings                  |-> totalSavings,
                  totalSavingsInflationAdjusted |-> inflationAdjustedSavings,
                  interestEarned                |-> interestEarned ]) ]

\* the loop condition as it would be with < for <=
projectionContinues_Exclusive(inputs, s) ==
  s.year < inputs.retirementAge - inputs.currentAge

\* the loop condition as it would be if the loop tested it after its body
projectionContinues_AtLeastOnce(inputs, s) ==
  s.year = 0 \/ s.year <= inputs.retirementAge - inputs.currentAge

\* the loop condition  year <= yearsToRetirement
projectionContinues(inputs, s) ==
  s.year <= inputs.retirementAge - inputs.currentAge

\* projectionResults with the withdrawal at the full accumulation return
projectionResults_FullReturn(inputs, s) ==
  LET yearsToRetirement == inputs.retirementAge - inputs.currentAge
      yearsOfRetirement == inputs.lifeExpectancy - inputs.retirementAge
      retirementValue == s.totalSavings
      retirementValueInflationAdjusted ==
        inflationAdjustedValue(retirementValue, inputs.inflationRate, yearsToRetirement)
      monthlyRetirementIncome ==
        Add(sustainableWithdrawalRate(retirementValue, yearsOfRetirement,
                                      inputs.expectedReturn),
            inputs.socialSecurityBenefit)
      monthlyRetirementIncomeInflationAdjusted ==
        inflationAdjustedValue(monthlyRetirementIncome, inputs.inflationRate,
                               yearsToRetirement)
      finalSalary ==
        salaryProjection(inputs.currentSalary, inputs.salaryGrowthRate, yearsToRetirement)
      replacementRatio == Div(Mul(monthlyRetirementIncome, Num(12)), finalSalary)
      desiredAnnualIncome == Mul(inputs.desiredRetirementIncome, Num(12))
      actualAnnualIncome == Mul(monthlyRetirementIncome, Num(12))
      retirementShortfall ==
        MathMax(Zero, Sub(desiredAnnualIncome, actualAnnualIncome))
      recommendedMonthlySavings ==
        IF Gt(retirementShortfall, Zero)
        THEN LET additionalNeeded == Mul(retirementShortfall, Num(yearsOfRetirement))
             IN calculateRequiredSavings(Add(additionalNeeded, retirementValue),
                                         inputs.currentSavings, inputs.expectedReturn,
                                         yearsToRetirement, inputs.inflationRate)
        ELSE inputs.monthlyContribution
  IN [ yearlyData                               |-> s.yearlyData,
       retirementValue                          |-> retirementValue,
       retirementValueInflationAdjusted         |-> retirementValueInflationAdjusted,
       monthlyRetirementIncome                  |-> monthlyRetirementIncome,
       monthlyRetirementIncomeInflationAdjusted |-> monthlyRetirementIncomeInflationAdjusted,
       totalContributions                       |-> s.totalContributions,
       totalInterestEarned                      |-> s.totalInterestEarned,
       yearsOfRetirement                        |-> yearsOfRetirement,
       retirementShortfall                      |-> retirementShortfall,
       recommendedMonthlySavings                |-> recommendedMonthlySavings,
       replacementRatio                         |-> replacementRatio ]

\* projectionResults with the retirement income taxed at retirementTaxRate
projectionResults_TaxedIncome(inputs, s) ==
  LET yearsToRetirement == inputs.retirementAge - inputs.currentAge
      yearsOfRetirement == inputs.lifeExpectancy - inputs.retirementAge
      retirementValue == s.totalSavings
      retirementValueInflationAdjusted ==
        inflationAdjustedValue(retirementValue, inputs.inflationRate, yearsToRetirement)
      monthlyRetirementIncome ==
        Mul(Add(sustainableWithdrawalRate(retirementValue, yearsOfRetirement,
                                          Mul(inputs.expectedReturn, R(1, 2))),
                inputs.socialSecurityBenefit),
            Sub(One, inputs.retirementTaxRate))
      monthlyRetirementIncomeInflationAdjusted ==
        inflationAdjustedValue(monthlyRetirementIncome, inputs.inflationRate,
                               yearsToRetirement)
      finalSalary ==
        salaryProjection(inputs.currentSalary, inputs.salaryGrowthRate, yearsToRetirement)
      replacementRatio == Div(Mul(monthlyRetirementIncome, Num(12)), finalSalary)
      desiredAnnualIncome == Mul(inputs.desiredRetirementIncome, Num(12))
      actualAnnualIncome == Mul(monthlyRetirementIncome, Num(12))
      retirementShortfall ==
        MathMax(Zero, Sub(desiredAnnualIncome, actualAnnualIncome))
      recommendedMonthlySavings ==
        IF Gt(retirementShortfall, Zero)
        THEN LET additionalNeeded == Mul(retirementShortfall, Num(yearsOfRetirement))
             IN calculateRequiredSavings(Add(additionalNeeded, retirementValue),
                                         inputs.currentSavings, inputs.expectedReturn,
                                         yearsToRetirement, inputs.inflationRate)
        ELSE inputs.monthlyContribution
  IN [ yearlyData                               |-> s.yearlyData,
       retirementValue                          |-> retirementValue,
       retirementValueInflationAdjusted         |-> retirementValueInflationAdjusted,
       monthlyRetirementIncome                  |-> monthlyRetirementIncome,
       monthlyRetirementIncomeInflationAdjusted |-> monthlyRetirementIncomeInflationAdjusted,
       totalContributions                       |-> s.totalContributions,
       totalInterestEarned                      |-> s.totalInterestEarned,
       yearsOfRetirement                        |-> yearsOfRetirement,
       retirementShortfall                      |-> retirementShortfall,
       recommendedMonthlySavings                |-> recommendedMonthlySavings,
       replacementRatio                         |-> replacementRatio ]

\* projectionResults with the recommended savings solved at the halved return
projectionResults_HalvedRecommendation(inputs, s) ==
  LET yearsToRetirement == inputs.retirementAge - inputs.currentAge
      yearsOfRetirement == inputs.lifeExpectancy - inputs.retirementAge
      retirementValue == s.totalSavings
      retirementValueInflationAdjusted ==
        inflationAdjustedValue(retirementValue, inputs.inflationRate, yearsToRetirement)
      monthlyRetirementIncome ==
        Add(sustainableWithdrawalRate(retirementValue, yearsOfRetirement,
                                      Mul(inputs.expectedReturn, R(1, 2))),
            inputs.socialSecurityBenefit)
      monthlyRetirementIncomeInflationAdjusted ==
        inflationAdjustedValue(monthlyRetirementIncome, inputs.inflationRate,
                               yearsToRetirement)
      finalSalary ==
        salaryProjection(inputs.currentSalary, inputs.salaryGrowthRate, yearsToRetirement)
      replacementRatio == Div(Mul(monthlyRetirementIncome, Num(12)), finalSalary)
      desiredAnnualIncome == Mul(inputs.desiredRetirementIncome, Num(12))
      actualAnnualIncome == Mul(monthlyRetirementIncome, Num(12))
      retirementShortfall ==
        MathMax(Zero, Sub(desiredAnnualIncome, actualAnnualIncome))
      recommendedMonthlySavings ==
        IF Gt(retirementShortfall, Zero)
        THEN LET additionalNeeded == Mul(retirementShortfall, Num(yearsOfRetirement))
             IN calculateRequiredSavings(Add(additionalNeeded, retirementValue),
                                         inputs.currentSavings,
                                         Mul(inputs.expectedReturn, R(1, 2)),
                                         yearsToRetirement, inputs.inflationRate)
        ELSE inputs.monthlyContribution
  IN [ yearlyData                               |-> s.yearlyData,
       retirementValue                          |-> retirementValue,
       retirementValueInflationAdjusted         |-> retirementValueInflationAdjusted,
       monthlyRetirementIncome                  |-> monthlyRetirementIncome,
       monthlyRetirementIncomeInflationAdjusted |-> monthlyRetirementIncomeInflationAdjusted,
       totalContributions                       |-> s.totalContributions,
       totalInterestEarned                      |-> s.totalInterestEarned,
       yearsOfRetirement                        |-> yearsOfRetirement,
       retirementShortfall                      |-> retirementShortfall,
       recommendedMonthlySavings                |-> recommendedMonthlySavings,
       replacementRatio                         |-> replacementRatio ]

\* the code after the loop: the summary figures and the returned record
projectionResults(inputs, s) ==
  LET yearsToRetirement == inputs.retirementAge - inputs.currentAge
      yearsOfRetirement == inputs.lifeExpectancy - inputs.retirementAge
      retirementValue == s.totalSavings
      retirementValueInflationAdjusted ==
        inflationAdjustedValue(retirementValue, inputs.inflationRate, yearsToRetirement)
      monthlyRetirementIncome ==
        Add(sustainableWithdrawalRate(retirementValue, yearsOfRetirement,
                                      Mul(inputs.expectedReturn, R(1, 2))),
            inputs.socialSecurityBenefit)
      monthlyRetirementIncomeInflationAdjusted ==
        inflationAdjustedValue(monthlyRetirementIncome, inputs.inflationRate,
                               yearsToRetirement)
      finalSalary ==
        salaryProjection(inputs.currentSalary, inputs.salaryGrowthRate, yearsToRetirement)
      replacementRatio == Div(Mul(monthlyRetirementIncome, Num(12)), finalSalary)
      desiredAnnualIncome == Mul(inputs.desiredRetirementIncome, Num(12))
      actualAnnualIncome == Mul(monthlyRetirementIncome, Num(12))
      retirementShortfall ==
        MathMax(Zero, Sub(desiredAnnualIncome, actualAnnualIncome))
      recommendedMonthlySavings ==
        IF Gt(retirementShortfall, Zero)
        THEN LET additionalNeeded == Mul(retirementShortfall, Num(yearsOfRetirement))
             IN calculateRequiredSavings(Add(additionalNeeded, retirementValue),
                                         inputs.currentSavings, inputs.expectedReturn,
                                         yearsToRetirement, inputs.inflationRate)
        ELSE inputs.monthlyContribution
  IN [ yearlyData                               |-> s.yearlyData,
       retirementValue                          |-> retirementValue,
       retirementValueInflationAdjusted         |-> retirementValueInflationAdjusted,
       monthlyRetirementIncome                  |-> monthlyRetirementIncome,
       monthlyRetirementIncomeInflationAdjusted |-> monthlyRetirementIncomeInflationAdjusted,
       totalContributions                       |-> s.totalContributions,
       totalInterestEarned                      |-> s.totalInterestEarned,
       yearsOfRetirement                        |-> yearsOfRetirement,
       retirementShortfall                      |-> retirementShortfall,
       recommendedMonthlySavings                |-> recommendedMonthlySavings,
       replacementRatio                         |-> replacementRatio ]

\* the whole loop, every iteration reading the same calendar year
RECURSIVE projectionLoop(_, _, _)
projectionLoop(inputs, s, fullYear) ==
  IF projectionContinues(inputs, s)
  THEN projectionLoop(inputs, projectionIteration(inputs, s, fullYear), fullYear)
  ELSE s

\* calculateProjections run to completion within one calendar year
calculateProjections(inputs, fullYear) ==
  projectionResults(inputs, projectionLoop(inputs, projectionStart(inputs), fullYear))

----------------------------------------------------------------------------
(* Scenario comparator: calculateScenarios *)

conservativeReturn == R(4, 100)
conservativeInflation == R(35, 1000)
moderateReturn == R(7, 100)
moderateInflation == R(3, 100)
aggressiveReturn == R(10, 100)
aggressiveInflation == R(25, 1000)

\* calculateScenarios as it would be with the conservative and aggressive
\* returns exchanged
calculateScenarios_ReturnsExchanged(baseInputs, fullYear) ==
  LET conservativeInputs ==
        [baseInputs EXCEPT !.expectedReturn = aggressiveReturn,
                           !.inflationRate = conservativeInflation]
      moderateInputs ==
        [baseInputs EXCEPT !.expectedReturn = moderateReturn,
                           !.inflationRate = moderateInflation]
      aggressiveInputs ==
        [baseInputs EXCEPT !.expectedReturn = conservativeReturn,
                           !.inflationRate = aggressiveInflation]
  IN [ conservative |-> calculateProjections(conservativeInputs, fullYear),
       moderate     |-> calculateProjections(moderateInputs, fullYear),
       aggressive   |-> calculateProjections(aggressiveInputs, fullYear) ]

\* calculateScenarios as it would be if the moderate scenario kept the rates of
\* the base inputs
calculateScenarios_ModerateFromBase(baseInputs, fullYear) ==
  LET conservativeInputs ==
        [baseInputs EXCEPT !.expectedReturn = conservativeReturn,
                           !.inflationRate = conservativeInflation]
      aggressiveInputs ==
        [baseInputs EXCEPT !.expectedReturn = aggressiveReturn,
                           !.inflationRate = aggressiveInflation]
  IN [ conservative |-> calculateProjections(conservativeInputs, fullYear),
       moderate     |-> calculateProjections(baseInputs, fullYear),
       aggressive   |-> calculateProjections(aggressiveInputs, fullYear) ]

calculateScenarios(baseInputs, fullYear) ==
  LET conservativeInputs ==
        [baseInputs EXCEPT !.expectedReturn = conservativeReturn,
                           !.inflationRate = conservativeInflation]
      moderateInputs ==
        [baseInputs EXCEPT !.expectedReturn = moderateReturn,
                           !.inflationRate = moderateInflation]
      aggressiveInputs ==
        [baseInputs EXCEPT !.expectedReturn = aggressiveReturn,
                           !.inflationRate = aggressiveInflation]
  IN [ conservative |-> calculateProjections(conservativeInputs, fullYear),
       moderate     |-> calculateProjections(moderateInputs, fullYear),
       aggressive   |-> calculateProjections(aggressiveInputs, fullYear) ]

----------------------------------------------------------------------------
(* Monte Carlo sampler: monteCarloSimulation *)

volatility == R(15, 100)

\* the success target computed before the trials
targetAmount(inputs) ==
  Mul(Mul(inputs.desiredRetirementIncome, Num(12)),
      Num(inputs.lifeExpectancy - inputs.retirementAge))

\* the locals of monteCarloSimulation before the first trial
monteCarloStart(inputs, iterations) ==
  [ i |-> 0, iterations |-> iterations, results |-> << >>,
    targetAmount |-> targetAmount(inputs) ]

\* randomReturn without the shift of the draw to [-0.5, 0.5)
randomReturn_Unshifted(inputs, random) ==
  Add(inputs.expectedReturn, Mul(random, volatility))

\* the perturbed return of one trial; random is the value of Math.random()
randomReturn(inputs, random) ==
  Add(inputs.expectedReturn, Mul(Sub(random, R(1, 2)), volatility))

\* The value one trial records.  The trial runs calculateProjections on the
\* copy and reads retirementValue alone, which the loop determines; the other
\* summary figures are computed and dropped, and computing them changes nothing.
trialValue(inputs, random, fullYear) ==
  LET simulationInputs == [inputs EXCEPT !.expectedReturn = randomReturn(inputs, random)]
  IN projectionLoop(simulationInputs, projectionStart(simulationInputs),
                    fullYear).totalSavings

\* results.sort((a, b) => a - b): ascending, by insertion
RECURSIVE insertAscending(_, _)
insertAscending(v, sorted) ==
  IF sorted = << >> THEN <<v>>
  ELSE IF Le(v, Head(sorted)) THEN <<v>> \o sorted
  ELSE <<Head(sorted)>> \o insertAscending(v, Tail(sorted))

\* the sort left out
sortAscending_Unsorted(seq) == seq

RECURSIVE sortAscending(_)
sortAscending(seq) ==
  IF seq = << >> THEN << >>
  ELSE insertAscending(Head(seq), sortAscending(Tail(seq)))

\* the filter as it would be with > for >=
successCount_Strict(results, target) ==
  Cardinality({k \in 1 .. Len(results) : Gt(results[k], target)})

\* results.filter(value => value >= targetAmount).length
successCount(results, target) ==
  Cardinality({k \in 1 .. Len(results) : Ge(results[k], target)})

\* the percentile by the nearest-rank rule: the ceil(iterations * p / q)-th
\* smallest value
percentileAt_NearestRank(results, iterations, p, q) ==
  results[(iterations * p + q - 1) \div q]

\* results[Math.floor(iterations * p / q)] of the 0-based sorted array
percentileAt(results, iterations, p, q) ==
  results[MathFloor(iterations, p, q) + 1]

\* the code after the trials: sort, count, pick
monteCarloResults(s) ==
  LET results == sortAscending(s.results)
  IN [ median       |-> percentileAt(results, s.iterations, 1, 2),
       percentile25 |-> percentileAt(results, s.iterations, 1, 4),
       percentile75 |-> percentileAt(results, s.iterations, 3, 4),
       percentile95 |-> percentileAt(results, s.iterations, 19, 20),
       successRate  |-> Div(Num(successCount(results, s.targetAmount)),
                            Num(s.iterations)) ]

----------------------------------------------------------------------------
(* Social Security estimator: calculateSocialSecurity *)

bend1 == 1174
bend2 == 7078

\* the bend-point formula as it would be with 32 % of all the earnings between
\* the bend points
primaryInsuranceAmount_MiddleOnAll(earnings) ==
  IF Le(earnings, Num(bend1))
  THEN Mul(earnings, R(9, 10))
  ELSE IF Le(earnings, Num(bend2))
  THEN Mul(earnings, R(32, 100))
  ELSE Add(Add(Mul(Num(bend1), R(9, 10)), Mul(Num(bend2 - bend1), R(32, 100))),
           Mul(Sub(earnings, Num(bend2)), R(15, 100)))

\* the bend-point formula
primaryInsuranceAmount(earnings) ==
  IF Le(earnings, Num(bend1))
  THEN Mul(earnings, R(9, 10))
  ELSE IF Le(earnings, Num(bend2))
  THEN Add(Mul(Num(bend1), R(9, 10)), Mul(Sub(earnings, Num(bend1)), R(32, 100)))
  ELSE Add(Add(Mul(Num(bend1), R(9, 10)), Mul(Num(bend2 - bend1), R(32, 100))),
           Mul(Sub(earnings, Num(bend2)), R(15, 100)))

\* claimingAdjustment as it would be without its delayed-claiming branch
claimingAdjustment_NoDelayedCredit(fullRetirementAge, claimingAge) ==
  LET monthsEarly == (fullRetirementAge - claimingAge) * 12
  IN IF monthsEarly > 0
     THEN Sub(One, Add(Mul(Num(IF monthsEarly < 36 THEN monthsEarly ELSE 36),
                           R(555, 100000)),
                       Mul(Num(IF monthsEarly - 36 > 0 THEN monthsEarly - 36 ELSE 0),
                           R(417, 100000))))
     ELSE One

\* claimingAdjustment as it would be with one reduction rate for every early month
claimingAdjustment_FlatReduction(fullRetirementAge, claimingAge) ==
  LET monthsEarly == (fullRetirementAge - claimingAge) * 12
      monthsLate == (claimingAge - fullRetirementAge) * 12
  IN IF monthsEarly > 0
     THEN Sub(One, Mul(Num(monthsEarly), R(555, 100000)))
     ELSE IF monthsLate > 0
     THEN Add(One, Mul(Num(monthsLate), R(667, 100000)))
     ELSE One

\* the factor the primary amount is multiplied by: 1 - reduction when claiming
\* early, 1 + increase when claiming late, and no multiplication otherwise
claimingAdjustment(fullRetirementAge, claimingAge) ==
  LET monthsEarly == (fullRetirementAge - claimingAge) * 12
      monthsLate == (claimingAge - fullRetirementAge) * 12
  IN IF monthsEarly > 0
     THEN LET reduction ==
                Add(Mul(Num(IF monthsEarly < 36 THEN monthsEarly ELSE 36), R(555, 100000)),
                    Mul(Num(IF monthsEarly - 36 > 0 THEN monthsEarly - 36 ELSE 0),
                        R(417, 100000)))
          IN Sub(One, reduction)
     ELSE IF monthsLate > 0
     THEN LET increase == Mul(Num(monthsLate), R(667, 100000))
          IN Add(One, increase)
     ELSE One

calculateSocialSecurity(averageIndexedMonthlyEarnings, fullRetirementAge, claimingAge) ==
  Mul(primaryInsuranceAmount(averageIndexedMonthlyEarnings),
      claimingAdjustment(fullRetirementAge, claimingAge))

----------------------------------------------------------------------------
(* Contribution optimizer *)

max401k == R(23000, 12)
maxRothIRA == R(7000, 12)

\* optimizeContributions without the cap on the Roth IRA target
optimizeContributions_NoRothCap(inputs, target401k, targetRothIRA, targetTaxable) ==
  LET optimal401k == MathMin(target401k, max401k)
  IN [ optimal401k     |-> optimal401k,
       optimalRothIRA  |-> targetRothIRA,
       optimalTaxable  |-> targetTaxable,
       totalTaxSavings |-> Mul(Mul(optimal401k, Num(12)), inputs.taxRate) ]

optimizeContributions(inputs, target401k, targetRothIRA, targetTaxable) ==
  LET optimal401k == MathMin(target401k, max401k)
      optimalRothIRA == MathMin(targetRothIRA, maxRothIRA)
      optimalTaxable == targetTaxable
      taxSavings401k == Mul(Mul(optimal401k, Num(12)), inputs.taxRate)
      totalTaxSavings == taxSavings401k
  IN [ optimal401k     |-> optimal401k,
       optimalRothIRA  |-> optimalRothIRA,
       optimalTaxable  |-> optimalTaxable,
       totalTaxSavings |-> totalTaxSavings ]

----------------------------------------------------------------------------
(* Share links: generateShareableLink, parseShareableLink *)

\* A string is a sequence of tokens: single characters, and the field names,
\* origin and pathname, each standing for its (unreserved) characters.

MaxDigits == 8   \* decimal places of the numbers turned into strings

\* the keys of a CalculatorInputs object, in the order Object.entries lists them
FieldNames ==
  << "currentAge", "retirementAge", "lifeExpectancy", "currentSalary",
     "salaryGrowthRate", "currentSavings", "monthlyContribution",
     "contributionIncreaseRate", "employerMatchPercent", "employerMatchLimit",
     "expectedReturn", "inflationRate", "taxRate", "retirementTaxRate",
     "desiredRetirementIncome", "socialSecurityBenefit" >>

DigitChars == << "0", "1", "2", "3", "4", "5", "6", "7", "8", "9" >>
InfinityChars == << "I", "n", "f", "i", "n", "i", "t", "y" >>

IsDigit(c) == \E i \in 1 .. 10 : DigitChars[i] = c
DigitValue(c) == (CHOOSE i \in 1 .. 10 : DigitChars[i] = c) - 1

Take(str, n) == SubSeq(str, 1, n)
Drop(str, n) == SubSeq(str, n + 1, Len(str))
StartsWith(str, prefix) ==
  Len(str) >= Len(prefix) /\ Take(str, Len(prefix)) = prefix

\* the decimal digits of a natural number
RECURSIVE natToString(_)
natToString(n) ==
  IF n < 10 THEN << DigitChars[n + 1] >>
  ELSE natToString(n \div 10) \o << DigitChars[(n % 10) + 1] >>

\* the digits of n, with zeros in front up to k digits
RECURSIVE zeroPadded(_, _)
zeroPadded(n, k) ==
  IF k = 0 THEN << >>
  ELSE zeroPadded(n \div 10, k - 1) \o << DigitChars[(n % 10) + 1] >>

\* the number of decimal places of the finite decimal n/d
decimalPlaces(d) ==
  CHOOSE k \in 0 .. MaxDigits :
    /\ IPow(10, k) % d = 0
    /\ \A j \in 0 .. k - 1 : IPow(10, j) % d # 0

\* the number a field holds: the model keeps the three ages as plain integers
fieldNumber(inputs, key) ==
  IF key \in {"currentAge", "retirementAge", "lifeExpectancy"}
  THEN Num(inputs[key]) ELSE inputs[key]

\* Number.prototype.toString(): the shortest decimal that reads back as the
\* number; positional for 1e-6 <= |x| < 1e21, with an exponent below 1e-6
numberToString(x) ==
  IF IsNaN(x) THEN << "N", "a", "N" >>
  ELSE IF IsInf(x) THEN (IF x = NegInf THEN << "-" >> ELSE << >>) \o InfinityChars
  ELSE IF x[1] = 0 THEN << "0" >>
  ELSE LET k == decimalPlaces(x[2])
           m == Abs(x[1]) * (IPow(10, k) \div x[2])
           sign == IF x[1] < 0 THEN << "-" >> ELSE << >>
           digits == natToString(m)
       IN IF Abs(x[1]) >= x[2] \/ Abs(x[1]) * 1000000 >= x[2]
          THEN sign \o natToString(m \div IPow(10, k))
                    \o (IF k = 0 THEN << >>
                        ELSE << "." >> \o zeroPadded(m % IPow(10, k), k))
          ELSE sign \o << Head(digits) >>
                    \o (IF Len(digits) > 1 THEN << "." >> \o Tail(digits) ELSE << >>)
                    \o << "e", "-" >> \o natToString(k - (Len(digits) - 1))

\* application/x-www-form-urlencoded serialisation of one value: a space
\* becomes "+", a "+" is percent-encoded, the other characters of a number's
\* string stay
RECURSIVE urlEncode(_)
urlEncode(str) ==
  IF str = << >> THEN << >>
  ELSE (IF Head(str) = "+" THEN << "%", "2", "B" >>
        ELSE IF Head(str) = " " THEN << "+" >>
        ELSE << Head(str) >>) \o urlEncode(Tail(str))

RECURSIVE urlDecode(_)
urlDecode(str) ==
  IF str = << >> THEN << >>
  ELSE IF StartsWith(str, << "%", "2", "B" >>) THEN << "+" >> \o urlDecode(Drop(str, 3))
  ELSE IF Head(str) = "+" THEN << " " >> \o urlDecode(Tail(str))
  ELSE << Head(str) >> \o urlDecode(Tail(str))

\* URLSearchParams.toString() of the list of (key, value) pairs
RECURSIVE paramsToString(_)
paramsToString(pairs) ==
  IF pairs = << >> THEN << >>
  ELSE << Head(pairs)[1], "=" >> \o urlEncode(Head(pairs)[2])
       \o (IF Len(pairs) > 1 THEN << "&" >> \o paramsToString(Tail(pairs)) ELSE << >>)

generateShareableLink(inputs) ==
  LET params == [i \in 1 .. Len(FieldNames) |->
                   << FieldNames[i], numberToString(fieldNumber(inputs, FieldNames[i])) >>]
  IN << "origin", "pathname", "?" >> \o paramsToString(params)

\* the position of the first token c in str, Len(str) + 1 when there is none
RECURSIVE indexOf(_, _)
indexOf(str, c) ==
  IF str = << >> \/ Head(str) = c THEN 1 ELSE 1 + indexOf(Tail(str), c)

\* new URLSearchParams(queryString): a leading "?" is dropped, the rest is
\* split at "&", every non-empty part at its first "=", and both sides decoded
RECURSIVE splitParams(_)
splitParams(str) ==
  IF str = << >> THEN << >>
  ELSE LET cut == indexOf(str, "&")
           part == Take(str, cut - 1)
           eq == indexOf(part, "=")
           rest == splitParams(Drop(str, cut))
       IN IF part = << >> THEN rest
          ELSE << << urlDecode(Take(part, eq - 1)), urlDecode(Drop(part, eq)) >> >>
               \o rest

parseParams(queryString) ==
  splitParams(IF queryString # << >> /\ Head(queryString) = "?"
              THEN Tail(queryString) ELSE queryString)

RECURSIVE trimStart(_)
trimStart(str) ==
  IF str # << >> /\ Head(str) = " " THEN trimStart(Tail(str)) ELSE str

\* the number of digits str begins with
RECURSIVE digitPrefixLength(_)
digitPrefixLength(str) ==
  IF str = << >> \/ ~IsDigit(Head(str)) THEN 0
  ELSE 1 + digitPrefixLength(Tail(str))

\* the value of a string of digits
RECURSIVE digitsValue(_)
digitsValue(str) ==
  IF str = << >> THEN 0
  ELSE digitsValue(Take(str, Len(str) - 1)) * 10 + DigitValue(str[Len(str)])

\* parseFloat as it would be if it stopped at the decimal point (parseInt)
parseFloat_IntegerOnly(str) ==
  LET trimmed == trimStart(str)
      signed == trimmed # << >> /\ Head(trimmed) \in {"-", "+"}
      body == IF signed THEN Tail(trimmed) ELSE trimmed
      intLen == digitPrefixLength(body)
      magnitude == Num(digitsValue(Take(body, intLen)))
  IN IF intLen = 0 THEN NaN
     ELSE IF signed /\ Head(trimmed) = "-" THEN Neg(magnitude) ELSE magnitude

\* parseFloat(string): the longest prefix, after leading white space, that is
\* a decimal literal (sign, digits, point, digits, exponent) or Infinity.
\* The scan is written as a chain of steps, each handing on what is left.

\* 10^exponent applied to the mantissa
scaled(mantissa, exponent) ==
  IF exponent >= 0 THEN Mul(mantissa, Num(IPow(10, exponent)))
  ELSE Div(mantissa, Num(IPow(10, -exponent)))

\* the digits an exponent part begins with; without digits there is no exponent
exponentDigits(str) == digitsValue(Take(str, digitPrefixLength(str)))

signedExponent(expRest) ==
  IF expRest # << >> /\ Head(expRest) = "-" THEN -exponentDigits(Tail(expRest))
  ELSE IF expRest # << >> /\ Head(expRest) = "+" THEN exponentDigits(Tail(expRest))
  ELSE exponentDigits(expRest)

exponentOf(afterFrac) ==
  IF afterFrac # << >> /\ Head(afterFrac) \in {"e", "E"}
  THEN signedExponent(Tail(afterFrac)) ELSE 0

mantissaExponent(intPart, fracPart, afterFrac) ==
  IF Len(intPart) + Len(fracPart) = 0 THEN NaN
  ELSE scaled(R(digitsValue(intPart \o fracPart), IPow(10, Len(fracPart))),
              exponentOf(afterFrac))

withFraction(intPart, rest, fracLen) ==
  mantissaExponent(intPart, Take(rest, fracLen), Drop(rest, fracLen))

afterInteger(intPart, afterInt) ==
  IF afterInt # << >> /\ Head(afterInt) = "."
  THEN withFraction(intPart, Tail(afterInt), digitPrefixLength(Tail(afterInt)))
  ELSE withFraction(intPart, afterInt, 0)

integerThenRest(body, intLen) == afterInteger(Take(body, intLen), Drop(body, intLen))

decimalLiteral(body) ==
  IF StartsWith(body, InfinityChars) THEN PosInf
  ELSE integerThenRest(body, digitPrefixLength(body))

isNegative(trimmed) == trimmed # << >> /\ Head(trimmed) = "-"

unsigned(trimmed) ==
  IF trimmed # << >> /\ Head(trimmed) \in {"-", "+"} THEN Tail(trimmed) ELSE trimmed

applySign(negative, magnitude) == IF negative THEN Neg(magnitude) ELSE magnitude

signedLiteral(trimmed) == applySign(isNegative(trimmed), decimalLiteral(unsigned(trimmed)))

parseFloat(str) == signedLiteral(trimStart(str))

\* one callback of params.forEach: a value that parses is stored under its key
storeOne(inputs, key, numValue) ==
  IF ~IsNaN(numValue)
  THEN [k \in (DOMAIN inputs) \cup {key} |-> IF k = key THEN numValue ELSE inputs[k]]
  ELSE inputs

keyOf(name) == IF name = << >> THEN "" ELSE Head(name)

\* params.forEach of parseShareableLink: a value that parses is stored under
\* its key, a value that does not is skipped
RECURSIVE storeParsed(_, _)
storeParsed(pairs, inputs) ==
  IF pairs = << >> THEN inputs
  ELSE storeParsed(Tail(pairs),
                   storeOne(inputs, keyOf(Head(pairs)[1]), parseFloat(Head(pairs)[2])))

parseShareableLink(queryString) ==
  storeParsed(parseParams(queryString), [k \in {} |-> Zero])

\* window.location.search of a page opened by the link: the part from "?" on
locationSearch(link) == Drop(link, indexOf(link, "?") - 1)

----------------------------------------------------------------------------
(* The component: FinancialCalculator's debounced recalculation *)

DebounceDelay == 500

\* The dependency array of the debounce effect reads handleCalculate above the
\* const that declares it.  What the read does depends on the build: with the
\* const kept (ES2015 and later) it throws a ReferenceError and the render
\* fails; with the const lowered to a hoisted var it yields undefined and the
\* render goes on.
Builds == { "const", "var" }

renderCompletes(build) == build = "var"

\* setTimeout(callback, 500) in a render whose state is inputs: the callback
\* closes over that render's inputs
setTimeout(timers, id, inputs, time) ==
  Append(timers, [id |-> id, due |-> time + DebounceDelay, inputs |-> inputs])

\* the effect's cleanup as it would be without its clearTimeout
clearTimeout_Missing(timers, id) == timers

\* clearTimeout(timer): a pending timer is removed, one that fired is not there
clearTimeout(timers, id) == SelectSeq(timers, LAMBDA t : t.id # id)

\* handleCalculate of the render with the given inputs: the three results it
\* sets; the scenario and Monte Carlo results are named by their inputs
handleCalculate(inputs, fullYear) ==
  [ for              |-> inputs,
    results          |-> calculateProjections(inputs, fullYear),
    scenarios        |-> [of |-> inputs],
    monteCarloResults |-> [of |-> inputs, iterations |-> 500] ]

\* the component after its first render and effects
mounted(build, inputs) ==
  IF renderCompletes(build)
  THEN [ status      |-> "mounted",
         inputs      |-> inputs,
         timers      |-> setTimeout(<< >>, 1, inputs, 0),
         effectTimer |-> 1,
         time        |-> 0,
         changedAt   |-> 0,
         changes     |-> 0,
         calculated  |-> [for |-> [currentAge |-> -1]],   \* results === null
         ran         |-> << >> ]
  ELSE [ status |-> "crashed" ]

\* setInputs with a new record: the render that follows runs the effect's
\* cleanup and then the effect again
inputsChanged(c, inputs) ==
  [ c EXCEPT !.inputs = inputs,
             !.timers = setTimeout(clearTimeout(c.timers, c.effectTimer),
                                   c.effectTimer + 1, inputs, c.time),
             !.effectTimer = c.effectTimer + 1,
             !.changedAt = c.time,
             !.changes = c.changes + 1 ]

\* the callback of timer k runs; ran records, for each run, the time since the
\* last change and whether the callback's inputs were the component's
timerFired(c, k, fullYear) ==
  [ c EXCEPT !.timers = clearTimeout(c.timers, c.timers[k].id),
             !.calculated = handleCalculate(c.timers[k].inputs, fullYear),
             !.ran = Append(c.ran, [ sinceChange |-> c.time - c.changedAt,
                                     latest      |-> c.timers[k].inputs = c.inputs ]) ]

----------------------------------------------------------------------------
(* Bounds of the model and the argument values the calls draw from *)

MaxYears == 2        \* retirementAge - currentAge ranges over -1 .. MaxYears
MaxRetYears == 1     \* lifeExpectancy - retirementAge ranges over 0 .. MaxRetYears
MaxMonths == 12      \* months compounded at a non-zero monthly rate (32-bit integers)
MaxTicks == 1        \* new-year rollovers of the host clock
ClockStart == 2025   \* the host's calendar year in the initial state
MaxScenarioYears == 1  \* retirementAge - currentAge in calculateScenarios calls
MaxIterations == 5   \* iterations of a monteCarloSimulation call

\* (expectedReturn, inflationRate): zero rates; equal non-zero rates (a real
\* rate of exactly 0); and rates whose real monthly rate is 1.  A return of 24
\* makes the halved monthly withdrawal rate 1, so that its powers stay small.
RatePairs ==
  { <<Zero, Zero>>, <<Num(24), Num(24)>>, <<Num(24), R(12, 13)>> }

MakeInputs(ytr, yor, savings, contribution, matchLimit, rates, desired, benefit) ==
  [ currentAge               |-> 30,
    retirementAge            |-> 30 + ytr,
    lifeExpectancy           |-> 30 + ytr + yor,
    currentSalary            |-> Num(120),
    salaryGrowthRate         |-> R(1, 2),
    currentSavings           |-> savings,
    monthlyContribution      |-> contribution,
    contributionIncreaseRate |-> R(1, 2),
    employerMatchPercent     |-> R(1, 2),
    employerMatchLimit       |-> matchLimit,
    expectedReturn           |-> rates[1],
    inflationRate            |-> rates[2],
    taxRate                  |-> R(22, 100),
    retirementTaxRate        |-> R(15, 100),
    desiredRetirementIncome  |-> desired,
    socialSecurityBenefit    |-> benefit ]

\* compounding at a non-zero rate is kept within 0 .. MaxMonths months
Fits(inputs) ==
  inputs.expectedReturn # Zero =>
    /\ inputs.retirementAge >= inputs.currentAge
    /\ (inputs.retirementAge - inputs.currentAge) * 12 <= MaxMonths
    /\ (inputs.lifeExpectancy - inputs.retirementAge) * 12 <= MaxMonths

\* records with a shortfall whose return and halved return both give a whole
\* real monthly rate (2 and 1): one year to retirement, one year of retirement
ShortfallInputs ==
  { MakeInputs(1, 1, Zero, One, R(1, 10), <<Num(24), Zero>>, desired, Num(2)) :
      desired \in {Num(500), Num(1000)} }

ProjectionInputs ==
  { inp \in { MakeInputs(ytr, yor, savings, contribution, matchLimit, rates,
                         desired, benefit) :
                ytr \in -1 .. MaxYears, yor \in 0 .. MaxRetYears,
                savings \in {Zero, Num(10)}, contribution \in {Zero, Num(1)},
                matchLimit \in {R(1, 100), R(1, 10)}, rates \in RatePairs,
                desired \in {Zero, Num(6), Num(500)},
                benefit \in {Zero, Num(2)} } : Fits(inp) }
    \cup ShortfallInputs

\* calculateScenarios overrides both rates with two- and three-digit decimals,
\* whose monthly powers no 32-bit integer holds: its calls are modelled for
\* lifeExpectancy = retirementAge, where the withdrawal has zero months.
\* the (expectedReturn, inflationRate) of the base inputs: the moderate pair,
\* and pairs that differ from it in the return, in the inflation, in both
ScenarioRatePairs ==
  { <<moderateReturn, moderateInflation>>, <<Zero, moderateInflation>>,
    <<moderateReturn, Zero>>, <<Zero, Zero>> }

ScenarioInputs ==
  { MakeInputs(ytr, 0, savings, contribution, R(1, 10), rates, Num(6), Num(2)) :
      ytr \in -1 .. MaxScenarioYears,
      savings \in {Zero, Num(10)}, contribution \in {Zero, Num(1)},
      rates \in ScenarioRatePairs }

\* monteCarloSimulation: one year of retirement, a target of 10
MonteCarloInputs ==
  { MakeInputs(ytr, 1, Num(10), contribution, R(1, 10), <<Zero, Zero>>,
               R(5, 6), Num(2)) :
      ytr \in 0 .. 1, contribution \in {Zero, Num(1)} }

\* the values Math.random() returns in the model, all in [0, 1)
RandomDraws == { Zero, R(1, 2), R(5, 6) }

Amounts == { Zero, Num(5), Num(10), Num(20) }

\* targets of calculateRequiredSavings: the amounts, and one that savings of 5
\* or 10 growing at a monthly rate of 1 for a year (to 20480 or 40960) do not
\* reach
TargetAmounts == Amounts \cup { Num(61440) }

\* years of compounding at the given rate: MaxMonths months when it is not zero
YearsAt(rate) ==
  { n \in 0 .. MaxYears : rate # Zero => n * 12 <= MaxMonths }

\* monthly targets: below, at and above the two caps, without bound, negative
TargetValues == { R(-5, 1), Zero, Num(500), maxRothIRA, Num(1000), max401k,
                  Num(2000), PosInf }

\* arguments of calculateEmployerMatch, all non-negative
MatchSalaries == { Zero, Num(10), Num(20) }
MatchContributions == { Zero, Num(1), Num(4) }
MatchPercents == { Zero, R(1, 2), One }
MatchLimits == { Zero, R(1, 10), R(1, 4) }

\* values of the retirementTaxRate field
RetirementTaxRates == { R(15, 100), R(1, 2) }

\* records turned into links: plain decimals, numbers below 1e-6 (printed with
\* an exponent), a negative amount, and fields that are NaN or Infinity
ShareBase ==
  MakeInputs(1, 1, Num(10), Num(1), R(6, 100), <<R(7, 100), R(3, 100)>>, Num(6), Num(2))

ShareInputs ==
  { ShareBase,
    [ShareBase EXCEPT !.currentSalary = Num(75000), !.desiredRetirementIncome = Zero],
    [ShareBase EXCEPT !.salaryGrowthRate = R(1, 10000000)],
    [ShareBase EXCEPT !.salaryGrowthRate = R(3, 20000000)],
    [ShareBase EXCEPT !.currentSavings = R(-5, 2), !.inflationRate = R(1, 1000000)],
    [ShareBase EXCEPT !.socialSecurityBenefit = NaN],
    [ShareBase EXCEPT !.desiredRetirementIncome = PosInf, !.currentSavings = NaN] }

\* parameter values of hand-written query strings
RawValues ==
  { << "a", "b", "c" >>, << "1", "2", "a", "b" >>, << >>, << "N", "a", "N" >>,
    << "+", "-", ".", "5" >>, << "5", "." >>, << "." >>, << "1", "e" >>,
    << "2", "E", "%", "2", "B", "1" >>, << "-" >>, << "4", "2" >> }

QueryStrings ==
  { prefix \o << key, "=" >> \o value
      \o << "&", "retirementAge", "=", "6", "5", "&", "&", "currentAge", "=" >> \o second :
      prefix \in { << >>, << "?" >> }, key \in { "currentAge", "expectedReturn" },
      value \in RawValues, second \in { << "x" >>, << "3", "1" >> } }

TimeStep == 250     \* milliseconds by which the model's time advances
MaxTime == 1500     \* the time up to which the component is followed
MaxChanges == 2     \* input changes after the component is mounted

\* the records the component's inputs state takes
UIInputs == { inp \in MonteCarloInputs : inp.monthlyContribution = One }

\* earnings below, at, just above and well above each bend point
EarningsValues ==
  { Zero, Num(1000), Num(bend1), Num(bend1 + 1), Num(3000),
    Num(bend2), Num(bend2 + 20), Num(7178) }
ClaimingAges == { 62, 64, 66, 67, 68, 69 }

----------------------------------------------------------------------------
(* State *)

vars == <<now, pc, callerInputs, locals, call, prev, ui>>

NoCall == [fn |-> "none"]
NoLocals == [year |-> -1]
NoInputs == [currentAge |-> -1]
NoUI == [status |-> "unmounted"]

Init ==
  /\ now = ClockStart
  /\ pc = "idle"
  /\ callerInputs = NoInputs
  /\ locals = NoLocals
  /\ call = NoCall
  /\ prev = NoCall
  /\ ui = NoUI

\* no call is executing, the caller holds no returned value and no component
\* is mounted
Fresh == pc = "idle" /\ call = NoCall /\ ui = NoUI

\* the host's calendar year advances
Tick ==
  /\ now < ClockStart + MaxTicks
  /\ now' = now + 1
  /\ UNCHANGED <<ui, pc, callerInputs, locals, call, prev>>

\* the caller drops the value returned to it
Discard ==
  /\ pc = "idle"
  /\ call # NoCall
  /\ call' = NoCall
  /\ prev' = NoCall
  /\ callerInputs' = NoInputs
  /\ UNCHANGED <<ui, now, pc, locals>>

\* calculateProjections(inp) is entered
ProjectionsEnter ==
  /\ Fresh
  /\ \E inp \in ProjectionInputs :
       /\ callerInputs' = inp
       /\ locals' = projectionStart(inp)
  /\ pc' = "calculateProjections"
  /\ call' = NoCall
  /\ prev' = NoCall
  /\ UNCHANGED <<ui, now>>

\* calculateProjections is entered again with the record of the call before
ProjectionsEnterAgain ==
  /\ pc = "idle"
  /\ call.fn = "calculateProjections"
  /\ prev = NoCall
  /\ locals' = projectionStart(callerInputs)
  /\ pc' = "calculateProjections"
  /\ prev' = call
  /\ call' = NoCall
  /\ UNCHANGED <<ui, now, callerInputs>>

\* calculateProjections is entered with a record that differs from the record
\* of the call before in retirementTaxRate only
ProjectionsEnterWithRetirementTaxRate ==
  /\ pc = "idle"
  /\ call.fn = "calculateProjections"
  /\ prev = NoCall
  /\ \E rate \in RetirementTaxRates \ {callerInputs.retirementTaxRate} :
       LET inp == [callerInputs EXCEPT !.retirementTaxRate = rate]
       IN /\ callerInputs' = inp
          /\ locals' = projectionStart(inp)
  /\ pc' = "calculateProjections"
  /\ prev' = call
  /\ call' = NoCall
  /\ UNCHANGED <<ui, now>>

\* calculateProjections is entered with the record the caller passed to the
\* call before, of another function
ProjectionsEnterAfter ==
  /\ pc = "idle"
  /\ call.fn \in {"calculateScenarios", "monteCarloSimulation", "optimizeContributions"}
  /\ prev = NoCall
  /\ locals' = projectionStart(callerInputs)
  /\ pc' = "calculateProjections"
  /\ prev' = call
  /\ call' = NoCall
  /\ UNCHANGED <<ui, now, callerInputs>>

\* one iteration of its loop
ProjectionsIterate ==
  /\ pc = "calculateProjections"
  /\ projectionContinues(callerInputs, locals)
  /\ locals' = projectionIteration(callerInputs, locals, now)
  /\ UNCHANGED <<ui, now, pc, callerInputs, call, prev>>

\* the loop is over: the summary is computed and the record returned
ProjectionsReturn ==
  /\ pc = "calculateProjections"
  /\ ~projectionContinues(callerInputs, locals)
  /\ call' = [fn |-> "calculateProjections", args |-> callerInputs,
              ret |-> projectionResults(callerInputs, locals)]
  /\ locals' = NoLocals
  /\ pc' = "idle"
  /\ UNCHANGED <<ui, now, callerInputs, prev>>

CallFutureValue ==
  \E principal \in Amounts, monthlyPayment \in {Zero, Num(1)},
     annualRate \in {Zero, Num(12)} :
    \E years \in YearsAt(annualRate) :
      /\ Fresh
      /\ call' = [fn |-> "futureValue",
                  args |-> [principal |-> principal,
                            monthlyPayment |-> monthlyPayment,
                            annualRate |-> annualRate, years |-> years],
                  ret |-> futureValue(principal, monthlyPayment, annualRate, years)]
      /\ prev' = NoCall
      /\ UNCHANGED <<ui, now, pc, callerInputs, locals>>

\* presentValue applied to the value futureValue just returned, at the same
\* rate and horizon
CallPresentValueOfFutureValue ==
  /\ pc = "idle"
  /\ call.fn = "futureValue"
  /\ prev = NoCall
  /\ call' = [fn |-> "presentValue",
              args |-> [futureValue |-> call.ret, annualRate |-> call.args.annualRate,
                        years |-> call.args.years],
              ret |-> presentValue(call.ret, call.args.annualRate, call.args.years)]
  /\ prev' = call
  /\ UNCHANGED <<ui, now, pc, callerInputs, locals>>

CallSustainableWithdrawalRate ==
  \E totalSavings \in Amounts, annualReturn \in {Zero, Num(12)} :
    \E yearsInRetirement \in YearsAt(annualReturn) :
      /\ Fresh
      /\ call' = [fn |-> "sustainableWithdrawalRate",
                  args |-> [totalSavings |-> totalSavings,
                            yearsInRetirement |-> yearsInRetirement,
                            annualReturn |-> annualReturn],
                  ret |-> sustainableWithdrawalRate(totalSavings, yearsInRetirement,
                                                    annualReturn)]
      /\ prev' = NoCall
      /\ UNCHANGED <<ui, now, pc, callerInputs, locals>>

CallRequiredSavings ==
  \E target \in TargetAmounts, currentSavings \in Amounts, rates \in RatePairs :
    \E years \in YearsAt(rates[1]) :
      /\ Fresh
      /\ call' = [fn |-> "calculateRequiredSavings",
                  args |-> [targetAmount |-> target, currentSavings |-> currentSavings,
                            annualReturn |-> rates[1], years |-> years,
                            inflationRate |-> rates[2]],
                  ret |-> calculateRequiredSavings(target, currentSavings, rates[1],
                                                   years, rates[2])]
      /\ prev' = NoCall
      /\ UNCHANGED <<ui, now, pc, callerInputs, locals>>

\* futureValue applied to the savings the previous call started from and the
\* monthly amount it returned, at its real rate of return and over its horizon
CallFutureValueOfRequiredSavings ==
  /\ pc = "idle"
  /\ call.fn = "calculateRequiredSavings"
  /\ prev = NoCall
  /\ LET realReturn == realRateOfReturn(call.args.annualReturn, call.args.inflationRate)
     IN call' = [fn |-> "futureValue",
                 args |-> [principal |-> call.args.currentSavings,
                           monthlyPayment |-> call.ret,
                           annualRate |-> realReturn, years |-> call.args.years],
                 ret |-> futureValue(call.args.currentSavings, call.ret, realReturn,
                                     call.args.years)]
  /\ prev' = call
  /\ UNCHANGED <<ui, now, pc, callerInputs, locals>>

CallSocialSecurity ==
  \E earnings \in EarningsValues, fullRetirementAge \in {67},
     claimingAge \in ClaimingAges :
    /\ Fresh
    /\ call' = [fn |-> "calculateSocialSecurity",
                args |-> [averageIndexedMonthlyEarnings |-> earnings,
                          fullRetirementAge |-> fullRetirementAge,
                          claimingAge |-> claimingAge],
                ret |-> calculateSocialSecurity(earnings, fullRetirementAge, claimingAge)]
    /\ prev' = NoCall
    /\ UNCHANGED <<ui, now, pc, callerInputs, locals>>

CallScenarios ==
  /\ Fresh
  /\ \E baseInputs \in ScenarioInputs :
       /\ callerInputs' = baseInputs
       /\ call' = [fn |-> "calculateScenarios", args |-> baseInputs,
                   ret |-> calculateScenarios(baseInputs, now)]
  /\ prev' = NoCall
  /\ UNCHANGED <<ui, now, pc, locals>>

\* monteCarloSimulation(inp, iterations) is entered
MonteCarloEnter ==
  /\ Fresh
  /\ \E inp \in MonteCarloInputs, iterations \in 1 .. MaxIterations :
       /\ callerInputs' = inp
       /\ locals' = monteCarloStart(inp, iterations)
  /\ pc' = "monteCarloSimulation"
  /\ UNCHANGED <<ui, now, call, prev>>

\* a trial as it would be if the random return were assigned to the caller's
\* record instead of a copy of it
MonteCarloTrial_InPlace ==
  /\ pc = "monteCarloSimulation"
  /\ locals.i < locals.iterations
  /\ \E random \in RandomDraws :
       /\ locals' = [locals EXCEPT !.i = @ + 1,
                                   !.results =
                                     Append(@, trialValue(callerInputs, random, now))]
       /\ callerInputs' =
            [callerInputs EXCEPT !.expectedReturn = randomReturn(callerInputs, random)]
  /\ UNCHANGED <<ui, now, pc, call, prev>>

\* one trial: a draw of Math.random(), a projection, a push
MonteCarloTrial ==
  /\ pc = "monteCarloSimulation"
  /\ locals.i < locals.iterations
  /\ \E random \in RandomDraws :
       locals' = [locals EXCEPT !.i = @ + 1,
                                !.results =
                                  Append(@, trialValue(callerInputs, random, now))]
  /\ UNCHANGED <<ui, now, pc, callerInputs, call, prev>>

\* the trials are over: the summary is computed and returned
MonteCarloReturn ==
  /\ pc = "monteCarloSimulation"
  /\ locals.i >= locals.iterations
  /\ call' = [fn |-> "monteCarloSimulation",
              args |-> [inputs |-> callerInputs, iterations |-> locals.iterations],
              trials |-> locals.results,
              ret |-> monteCarloResults(locals)]
  /\ locals' = NoLocals
  /\ pc' = "idle"
  /\ UNCHANGED <<ui, now, callerInputs, prev>>

CallOptimizeContributions ==
  \E inp \in MonteCarloInputs, target401k \in TargetValues,
     targetRothIRA \in TargetValues, targetTaxable \in {Zero, Num(2000)} :
    /\ Fresh
    /\ callerInputs' = inp
    /\ call' = [fn |-> "optimizeContributions",
                args |-> [inputs |-> inp, target401k |-> target401k,
                          targetRothIRA |-> targetRothIRA,
                          targetTaxable |-> targetTaxable],
                ret |-> optimizeContributions(inp, target401k, targetRothIRA,
                                              targetTaxable)]
    /\ prev' = NoCall
    /\ UNCHANGED <<ui, now, pc, locals>>

CallEmployerMatch ==
  \E monthlySalary \in MatchSalaries, employeeContribution \in MatchContributions,
     matchPercent \in MatchPercents, matchLimit \in MatchLimits :
    /\ Fresh
    /\ call' = [fn |-> "calculateEmployerMatch",
                args |-> [monthlySalary |-> monthlySalary,
                          employeeContribution |-> employeeContribution,
                          matchPercent |-> matchPercent, matchLimit |-> matchLimit],
                ret |-> calculateEmployerMatch(monthlySalary, employeeContribution,
                                               matchPercent, matchLimit)]
    /\ prev' = NoCall
    /\ UNCHANGED <<ui, now, pc, callerInputs, locals>>

CallGenerateShareableLink ==
  \E inp \in ShareInputs :
    /\ Fresh
    /\ callerInputs' = inp
    /\ call' = [fn |-> "generateShareableLink", args |-> [inputs |-> inp],
                ret |-> generateShareableLink(inp)]
    /\ prev' = NoCall
    /\ UNCHANGED <<ui, now, pc, locals>>

\* the link is opened: parseShareableLink is applied to its query string
CallParseShareableLinkOfLink ==
  /\ pc = "idle"
  /\ call.fn = "generateShareableLink"
  /\ prev = NoCall
  /\ call' = [fn |-> "parseShareableLink",
              args |-> [queryString |-> locationSearch(call.ret)],
              ret |-> parseShareableLink(locationSearch(call.ret))]
  /\ prev' = call
  /\ UNCHANGED <<ui, now, pc, callerInputs, locals>>

CallParseShareableLink ==
  \E queryString \in QueryStrings :
    /\ Fresh
    /\ call' = [fn |-> "parseShareableLink", args |-> [queryString |-> queryString],
                ret |-> parseShareableLink(queryString)]
    /\ prev' = NoCall
    /\ UNCHANGED <<ui, now, pc, callerInputs, locals>>

\* the component is rendered for the first time and its effects run
UIMount ==
  /\ Fresh
  /\ \E build \in Builds, inp \in UIInputs : ui' = mounted(build, inp)
  /\ UNCHANGED <<now, pc, callerInputs, locals, call, prev>>

\* handleInputChange: the user edits a field
UIInputChange ==
  /\ ui.status = "mounted"
  /\ ui.changes < MaxChanges
  /\ \E inp \in UIInputs : ui' = inputsChanged(ui, inp)
  /\ UNCHANGED <<now, pc, callerInputs, locals, call, prev>>

\* time passes; a timer that is due may run late
UITimePasses ==
  /\ ui.status = "mounted"
  /\ ui.time + TimeStep <= MaxTime
  /\ ui' = [ui EXCEPT !.time = @ + TimeStep]
  /\ UNCHANGED <<now, pc, callerInputs, locals, call, prev>>

\* a timer that is due runs its callback
UITimerFires ==
  /\ ui.status = "mounted"
  /\ \E k \in 1 .. Len(ui.timers) :
       /\ ui.timers[k].due <= ui.time
       /\ ui' = timerFired(ui, k, now)
  /\ UNCHANGED <<now, pc, callerInputs, locals, call, prev>>

\* the page is left
UIUnmount ==
  /\ ui.status # "unmounted"
  /\ ui' = NoUI
  /\ UNCHANGED <<now, pc, callerInputs, locals, call, prev>>

Next ==
  \/ Tick
  \/ Discard
  \/ ProjectionsEnter
  \/ ProjectionsEnterAgain
  \/ ProjectionsEnterWithRetirementTaxRate
  \/ ProjectionsEnterAfter
  \/ ProjectionsIterate
  \/ ProjectionsReturn
  \/ CallFutureValue
  \/ CallPresentValueOfFutureValue
  \/ CallSustainableWithdrawalRate
  \/ CallRequiredSavings
  \/ CallFutureValueOfRequiredSavings
  \/ CallSocialSecurity
  \/ CallScenarios
  \/ MonteCarloEnter
  \/ MonteCarloTrial
  \/ MonteCarloReturn
  \/ CallOptimizeContributions
  \/ CallEmployerMatch
  \/ CallGenerateShareableLink
  \/ CallParseShareableLinkOfLink
  \/ CallParseShareableLink
  \/ UIMount
  \/ UIInputChange
  \/ UITimePasses
  \/ UITimerFires
  \/ UIUnmount

Spec == Init /\ [][Next]_vars

----------------------------------------------------------------------------
(* Properties *)

ProjectionsReturned == call.fn = "calculateProjections"

YearsToRetirement(inp) == inp.retirementAge - inp.currentAge
YearsOfRetirement(inp) == inp.lifeExpectancy - inp.retirementAge

\* C1: for retirementAge >= currentAge the yearlyData returned by
\* calculateProjections has exactly retirementAge - currentAge + 1 entries
\* (one entry when the two ages are equal).
C1_YearlyDataLength ==
  (ProjectionsReturned /\ call.args.retirementAge >= call.args.currentAge)
    => Len(call.ret.yearlyData) = YearsToRetirement(call.args) + 1

C1_Witness ==
  /\ ProjectionsReturned
  /\ call.args.retirementAge = call.args.currentAge
  /\ Len(call.ret.yearlyData) = 1

\* C2: in every result of calculateProjections retirementShortfall >= 0, and
\* when the projected annual income is at least the desired annual income the
\* shortfall is exactly 0 and recommendedMonthlySavings is the input's
\* monthlyContribution.  Stated for the results of calls with currentAge <=
\* retirementAge <= lifeExpectancy.
C2_ShortfallNonNegative ==
  (/\ ProjectionsReturned
   /\ YearsToRetirement(call.args) >= 0
   /\ YearsOfRetirement(call.args) >= 0) =>
    LET r == call.ret
        actualAnnualIncome == Mul(r.monthlyRetirementIncome, Num(12))
        desiredAnnualIncome == Mul(call.args.desiredRetirementIncome, Num(12))
    IN /\ Ge(r.retirementShortfall, Zero)
       /\ Ge(actualAnnualIncome, desiredAnnualIncome) =>
            /\ r.retirementShortfall = Zero
            /\ r.recommendedMonthlySavings = call.args.monthlyContribution

\* the shortfall is NaN: the call has lifeExpectancy = retirementAge and a zero
\* terminal balance, so the withdrawal is 0 / 0
C2_Witness ==
  /\ ProjectionsReturned
  /\ YearsToRetirement(call.args) >= 0
  /\ YearsOfRetirement(call.args) = 0
  /\ call.ret.retirementValue = Zero
  /\ IsNaN(call.ret.retirementShortfall)

\* C3: calculateRequiredSavings returns exactly 0 whenever currentSavings
\* compounded monthly at the real rate over years * 12 months meets or exceeds
\* targetAmount, for every real rate (also a real rate of 0), and never
\* returns a negative amount.  Stated for horizons of at least one year, where
\* no division has a zero divisor.
C3_RequiredSavingsZeroWhenMet ==
  (call.fn = "calculateRequiredSavings" /\ call.args.years >= 1) =>
    LET a == call.args
        realReturn == Sub(Div(Add(One, a.annualReturn), Add(One, a.inflationRate)), One)
        compounded ==
          Mul(a.currentSavings,
              MathPow(Add(One, Div(realReturn, Num(12))), a.years * 12))
    IN /\ Ge(compounded, a.targetAmount) => call.ret = Zero
       /\ ~Lt(call.ret, Zero)

\* a negative amount is returned: the real rate is 0 and the savings exceed
\* the target
C3_Witness ==
  /\ call.fn = "calculateRequiredSavings"
  /\ call.args.years >= 1
  /\ call.args.annualReturn = call.args.inflationRate
  /\ Gt(call.args.currentSavings, call.args.targetAmount)
  /\ Lt(call.ret, Zero)

\* every number of a ProjectionResults record is finite
FiniteResults(r) ==
  /\ \A k \in 1 .. Len(r.yearlyData) :
       LET e == r.yearlyData[k]
       IN /\ IsFinite(e.salary) /\ IsFinite(e.monthlyContribution)
          /\ IsFinite(e.employerMatch) /\ IsFinite(e.totalContribution)
          /\ IsFinite(e.totalSavings) /\ IsFinite(e.totalSavingsInflationAdjusted)
          /\ IsFinite(e.interestEarned)
  /\ IsFinite(r.retirementValue) /\ IsFinite(r.retirementValueInflationAdjusted)
  /\ IsFinite(r.monthlyRetirementIncome)
  /\ IsFinite(r.monthlyRetirementIncomeInflationAdjusted)
  /\ IsFinite(r.totalContributions) /\ IsFinite(r.totalInterestEarned)
  /\ IsFinite(r.retirementShortfall) /\ IsFinite(r.recommendedMonthlySavings)
  /\ IsFinite(r.replacementRatio)

\* C4: for zero rates and zero horizons (retirementAge = currentAge,
\* lifeExpectancy = retirementAge, years = 0) sustainableWithdrawalRate,
\* calculateRequiredSavings and calculateProjections return a finite number
\* in every result field, never NaN or Infinity.
C4_EdgeCasesFinite ==
  /\ (call.fn = "sustainableWithdrawalRate" /\ call.args.yearsInRetirement >= 0)
       => IsFinite(call.ret)
  /\ (call.fn = "calculateRequiredSavings" /\ call.args.years >= 0)
       => IsFinite(call.ret)
  /\ (/\ ProjectionsReturned
      /\ YearsToRetirement(call.args) >= 0
      /\ YearsOfRetirement(call.args) >= 0)
       => FiniteResults(call.ret)

\* retirementAge = currentAge with a shortfall: the recommended savings are
\* the amount still needed divided by zero months
C4_Witness ==
  /\ ProjectionsReturned
  /\ YearsToRetirement(call.args) = 0
  /\ YearsOfRetirement(call.args) >= 1
  /\ Gt(call.ret.retirementShortfall, Zero)
  /\ call.ret.recommendedMonthlySavings = PosInf

\* two calls of calculateProjections with the same record, one after the other
ProjectionsRepeated ==
  /\ ProjectionsReturned
  /\ prev.fn = "calculateProjections"
  /\ call.args = prev.args

\* a ProjectionResults record without the calendar years of its entries
WithoutYears(r) ==
  [r EXCEPT !.yearlyData = [k \in 1 .. Len(r.yearlyData) |->
                              [r.yearlyData[k] EXCEPT !.year = 0]]]

\* C5 as claimed: two calls of calculateProjections with equal inputs return
\* results equal in every field, the calendar years included, whatever the
\* state of the host.
C5_EqualInputsEqualResults ==
  ProjectionsRepeated => call.ret = prev.ret

\* C5 as amended: two calls with equal inputs return results equal in every
\* field but the calendar year of the yearly entries; the year of entry k is
\* the host's calendar year, read in iteration k, plus k.
C5_EqualUpToCalendarYear ==
  ProjectionsRepeated =>
    /\ WithoutYears(call.ret) = WithoutYears(prev.ret)
    /\ \A k \in 1 .. Len(call.ret.yearlyData) :
         /\ call.ret.yearlyData[k].year - (k - 1) \in ClockStart .. now
         /\ call.ret.yearlyData[k].year >= prev.ret.yearlyData[k].year

C5_Witness ==
  /\ ProjectionsRepeated
  /\ Len(call.ret.yearlyData) >= 2
  /\ call.ret # prev.ret

ScenariosReturned ==
  /\ call.fn = "calculateScenarios"
  /\ call.args.retirementAge >= call.args.currentAge

\* C6 as claimed: for every sane base input calculateScenarios returns
\* strictly increasing terminal balances, conservative < moderate < aggressive.
C6_ScenariosStrictlyIncreasing ==
  ScenariosReturned =>
    /\ Lt(call.ret.conservative.retirementValue, call.ret.moderate.retirementValue)
    /\ Lt(call.ret.moderate.retirementValue, call.ret.aggressive.retirementValue)

\* the base input has something for interest to act on: a positive balance, or
\* a positive contribution and at least one year after the first
EarnsInterest(inp) ==
  \/ Gt(inp.currentSavings, Zero)
  \/ Gt(inp.monthlyContribution, Zero) /\ inp.retirementAge > inp.currentAge

\* C6 as amended: the terminal balances are ordered conservative <= moderate
\* <= aggressive; strictly when currentSavings > 0, or monthlyContribution > 0
\* and retirementAge > currentAge; all three are equal otherwise.
C6_ScenariosOrdered ==
  ScenariosReturned =>
    LET c == call.ret.conservative.retirementValue
        m == call.ret.moderate.retirementValue
        a == call.ret.aggressive.retirementValue
    IN IF EarnsInterest(call.args) THEN Lt(c, m) /\ Lt(m, a)
       ELSE c = m /\ m = a

C6_Witness ==
  /\ ScenariosReturned
  /\ call.args.currentSavings = Zero
  /\ Gt(call.args.monthlyContribution, Zero)
  /\ call.args.retirementAge > call.args.currentAge
  /\ Lt(call.ret.conservative.retirementValue, call.ret.aggressive.retirementValue)

MonteCarloReturned ==
  /\ call.fn = "monteCarloSimulation"
  /\ call.args.iterations >= 4

\* C7: for N >= 4 iterations and any random draws monteCarloSimulation returns
\* percentile25 <= median <= percentile75 <= percentile95.
C7_PercentilesOrdered ==
  MonteCarloReturned =>
    /\ Le(call.ret.percentile25, call.ret.median)
    /\ Le(call.ret.median, call.ret.percentile75)
    /\ Le(call.ret.percentile75, call.ret.percentile95)

C7_Witness ==
  /\ MonteCarloReturned
  /\ Lt(call.ret.percentile25, call.ret.median)
  /\ Lt(call.ret.median, call.ret.percentile95)

\* C8: for N >= 4 the successRate is the number of trials whose terminal
\* balance is >= desiredRetirementIncome * 12 * (lifeExpectancy -
\* retirementAge), divided by N, and lies in [0, 1].
C8_SuccessRate ==
  MonteCarloReturned =>
    LET inp == call.args.inputs
        target == Mul(Mul(inp.desiredRetirementIncome, Num(12)),
                      Num(inp.lifeExpectancy - inp.retirementAge))
        met == {k \in 1 .. Len(call.trials) : Ge(call.trials[k], target)}
    IN /\ Len(call.trials) = call.args.iterations
       /\ call.ret.successRate = R(Cardinality(met), call.args.iterations)
       /\ Le(Zero, call.ret.successRate) /\ Le(call.ret.successRate, One)

C8_Witness ==
  /\ MonteCarloReturned
  /\ Lt(Zero, call.ret.successRate) /\ Lt(call.ret.successRate, One)
  /\ \E k \in 1 .. Len(call.trials) :
       call.trials[k] = targetAmount(call.args.inputs)

SocialSecurityReturned == call.fn = "calculateSocialSecurity"

\* the benefit at full retirement age for the earnings of the returned call
FullBenefit ==
  calculateSocialSecurity(call.args.averageIndexedMonthlyEarnings,
                          call.args.fullRetirementAge, call.args.fullRetirementAge)

\* C9 as claimed: for any earnings E the benefit is strictly below the full
\* benefit when claimingAge < fra and strictly above it when claimingAge > fra.
C9_ClaimingAgeStrict ==
  SocialSecurityReturned =>
    /\ call.args.claimingAge < call.args.fullRetirementAge => Lt(call.ret, FullBenefit)
    /\ call.args.claimingAge > call.args.fullRetirementAge => Gt(call.ret, FullBenefit)

\* C9 as amended: for earnings E > 0 the benefit is strictly below the full
\* benefit when claiming early and strictly above it when claiming late; for
\* E = 0 the benefit is 0 at every claiming age.
C9_ClaimingAgeStrictForPositiveEarnings ==
  SocialSecurityReturned =>
    IF Gt(call.args.averageIndexedMonthlyEarnings, Zero)
    THEN /\ call.args.claimingAge < call.args.fullRetirementAge
              => Lt(call.ret, FullBenefit)
         /\ call.args.claimingAge > call.args.fullRetirementAge
              => Gt(call.ret, FullBenefit)
    ELSE call.ret = Zero

C9_Witness ==
  /\ SocialSecurityReturned
  /\ Gt(call.args.averageIndexedMonthlyEarnings, Num(bend2))
  /\ call.args.claimingAge > call.args.fullRetirementAge
  /\ Gt(call.ret, FullBenefit)

\* presentValue has been applied to futureValue(P, 0, r, n), with r > 0
RoundTripReturned ==
  /\ call.fn = "presentValue"
  /\ prev.fn = "futureValue"
  /\ prev.args.monthlyPayment = Zero
  /\ Gt(prev.args.annualRate, Zero)

OptimizeReturned == call.fn = "optimizeContributions"

\* C11: optimizeContributions clamps: optimal401k <= 23000/12 and
\* optimalRothIRA <= 7000/12 for every target, however large; each equals its
\* target when the target is at or below its cap; optimalTaxable is
\* targetTaxable unchanged.
C11_TargetsClamped ==
  OptimizeReturned =>
    LET a == call.args
        r == call.ret
    IN /\ Le(r.optimal401k, max401k)
       /\ Le(r.optimalRothIRA, maxRothIRA)
       /\ Le(a.target401k, max401k) => r.optimal401k = a.target401k
       /\ Le(a.targetRothIRA, maxRothIRA) => r.optimalRothIRA = a.targetRothIRA
       /\ r.optimalTaxable = a.targetTaxable

C11_Witness ==
  /\ OptimizeReturned
  /\ call.args.target401k = PosInf
  /\ Gt(call.args.targetRothIRA, maxRothIRA)
  /\ call.ret.optimal401k = max401k
  /\ call.ret.optimalRothIRA = maxRothIRA

EmployerMatchReturned == call.fn = "calculateEmployerMatch"

\* C12: for non-negative arguments calculateEmployerMatch returns a value that
\* is >= 0, <= monthlySalary * matchLimit and <= employeeContribution *
\* matchPercent, and equals the smaller of the two.
C12_EmployerMatchBounded ==
  EmployerMatchReturned =>
    LET a == call.args
        cap == Mul(a.monthlySalary, a.matchLimit)
        matched == Mul(a.employeeContribution, a.matchPercent)
    IN /\ Ge(call.ret, Zero)
       /\ Le(call.ret, cap)
       /\ Le(call.ret, matched)
       /\ call.ret = (IF Le(matched, cap) THEN matched ELSE cap)

C12_Witness ==
  /\ EmployerMatchReturned
  /\ Gt(call.ret, Zero)
  /\ Lt(call.ret, Mul(call.args.employeeContribution, call.args.matchPercent))
  /\ call.ret = Mul(call.args.monthlySalary, call.args.matchLimit)

\* C13: with annualRate = 0, futureValue(P, M, 0, n) = P + M * 12 * n, and
\* futureValue(P, 0, 0, n) = P.
C13_ZeroRateFutureValue ==
  (call.fn = "futureValue" /\ call.args.annualRate = Zero) =>
    LET a == call.args
    IN /\ call.ret = Add(a.principal, Mul(Mul(a.monthlyPayment, Num(12)), Num(a.years)))
       /\ a.monthlyPayment = Zero => call.ret = a.principal

C13_Witness ==
  /\ call.fn = "futureValue"
  /\ call.args.annualRate = Zero
  /\ call.args.years >= 2
  /\ Gt(call.args.monthlyPayment, Zero)
  /\ Gt(call.ret, call.args.principal)

\* C14: for retirementAge >= currentAge, currentSavings >= 0, expectedReturn
\* >= 0 and non-negative salary, contribution and match parameters,
\* retirementValue >= currentSavings, strictly when monthlyContribution > 0.
C14_RetirementValueAtLeastSavings ==
  (/\ ProjectionsReturned
   /\ YearsToRetirement(call.args) >= 0
   /\ Ge(call.args.currentSavings, Zero)
   /\ Ge(call.args.expectedReturn, Zero)
   /\ Ge(call.args.monthlyContribution, Zero)) =>
    /\ Ge(call.ret.retirementValue, call.args.currentSavings)
    /\ Gt(call.args.monthlyContribution, Zero)
         => Gt(call.ret.retirementValue, call.args.currentSavings)

C14_Witness ==
  /\ ProjectionsReturned
  /\ YearsToRetirement(call.args) = 0
  /\ call.args.expectedReturn = Zero
  /\ Gt(call.args.currentSavings, Zero)
  /\ Gt(call.args.monthlyContribution, Zero)
  /\ Gt(call.ret.retirementValue, call.args.currentSavings)

\* the balance the simulated year of entry k opens with
OpeningBalance(k) ==
  IF k = 1 THEN call.args.currentSavings ELSE call.ret.yearlyData[k - 1].totalSavings

C20_RetirementIncomeFormula ==
  ProjectionsReturned =>
    LET a == call.args
        r == call.ret
    IN /\ r.monthlyRetirementIncome =
            Add(sustainableWithdrawalRate(r.retirementValue, YearsOfRetirement(a),
                                          Mul(a.expectedReturn, R(1, 2))),
                a.socialSecurityBenefit)
       /\ r.replacementRatio =
            Div(Mul(r.monthlyRetirementIncome, Num(12)),
                salaryProjection(a.currentSalary, a.salaryGrowthRate,
                                 YearsToRetirement(a)))

C20_Witness ==
  /\ ProjectionsReturned
  /\ Gt(call.args.expectedReturn, Zero)
  /\ YearsOfRetirement(call.args) >= 1
  /\ YearsToRetirement(call.args) >= 1
  /\ Gt(call.args.socialSecurityBenefit, Zero)
  /\ IsFinite(call.ret.monthlyRetirementIncome)
  /\ Gt(call.ret.monthlyRetirementIncome, call.args.socialSecurityBenefit)
  /\ Gt(call.ret.replacementRatio, Zero)

\* the record with its retirementTaxRate replaced
WithRetirementTaxRate(inp, rate) == [inp EXCEPT !.retirementTaxRate = rate]

\* a ScenarioComparison without the calendar years of its entries
ScenariosWithoutYears(c) ==
  [ conservative |-> WithoutYears(c.conservative),
    moderate     |-> WithoutYears(c.moderate),
    aggressive   |-> WithoutYears(c.aggressive) ]

\* two calls of calculateProjections, one after the other, with records that
\* differ in retirementTaxRate and in nothing else
ProjectionsRepeatedWithOtherTaxRate ==
  /\ ProjectionsReturned
  /\ prev.fn = "calculateProjections"
  /\ call.args.retirementTaxRate # prev.args.retirementTaxRate
  /\ call.args = WithRetirementTaxRate(prev.args, call.args.retirementTaxRate)

\* C15: retirementTaxRate is a dead input: records that differ in it alone get
\* the same results from calculateProjections (up to the calendar years read
\* from the host), calculateScenarios and optimizeContributions, and the same
\* target and trial values from monteCarloSimulation under the same draws.
C15_RetirementTaxRateDead ==
  /\ ProjectionsRepeatedWithOtherTaxRate =>
       WithoutYears(call.ret) = WithoutYears(prev.ret)
  /\ \A rate \in RetirementTaxRates :
       /\ call.fn = "calculateScenarios" =>
            ScenariosWithoutYears(call.ret) =
              ScenariosWithoutYears(
                calculateScenarios(WithRetirementTaxRate(call.args, rate), now))
       /\ call.fn = "optimizeContributions" =>
            call.ret = optimizeContributions(
                         WithRetirementTaxRate(call.args.inputs, rate),
                         call.args.target401k, call.args.targetRothIRA,
                         call.args.targetTaxable)
       /\ pc = "monteCarloSimulation" =>
            /\ locals.targetAmount =
                 targetAmount(WithRetirementTaxRate(callerInputs, rate))
            /\ \A random \in RandomDraws :
                 trialValue(callerInputs, random, now) =
                   trialValue(WithRetirementTaxRate(callerInputs, rate), random, now)

C15_Witness ==
  /\ ProjectionsRepeatedWithOtherTaxRate
  /\ Len(call.ret.yearlyData) >= 2
  /\ IsFinite(call.ret.monthlyRetirementIncome)
  /\ Gt(call.ret.monthlyRetirementIncome, Zero)
  /\ call.ret.monthlyRetirementIncome = prev.ret.monthlyRetirementIncome

\* the CalculatorInputs record passed to a returned call
InputsOf(c) == IF c.fn = "calculateScenarios" THEN c.args ELSE c.args.inputs

\* calculateProjections has returned after a call of another function to which
\* the caller passed the same record
ProjectionsReturnedAfter ==
  /\ ProjectionsReturned
  /\ prev.fn \in {"calculateScenarios", "monteCarloSimulation", "optimizeContributions"}

\* C16: calculateProjections, calculateScenarios, monteCarloSimulation and
\* optimizeContributions leave the caller's record unchanged: no step of a
\* running call changes it, it is the record passed when the call has
\* returned, and a calculateProjections call that follows returns what it
\* returns for that record whatever call came before.
C16_InputsUnchanged ==
  /\ [][pc # "idle" => callerInputs' = callerInputs]_vars
  /\ [](call.fn \in {"calculateScenarios", "monteCarloSimulation",
                      "optimizeContributions"} => callerInputs = InputsOf(call))
  /\ [](ProjectionsReturnedAfter =>
          /\ call.args = InputsOf(prev)
          /\ WithoutYears(call.ret) =
               WithoutYears(calculateProjections(InputsOf(prev), now)))

C16_Witness ==
  /\ ProjectionsReturnedAfter
  /\ prev.fn = "monteCarloSimulation"
  /\ prev.args.iterations >= 4
  /\ Gt(prev.ret.percentile95, prev.ret.percentile25)
  /\ call.args = prev.args.inputs
  /\ Gt(call.ret.retirementValue, Zero)

\* the set of the sixteen field names
FieldNameSet == { FieldNames[i] : i \in 1 .. Len(FieldNames) }

\* parseShareableLink has been applied to the query string of a generated link
LinkRoundTripReturned ==
  /\ call.fn = "parseShareableLink"
  /\ prev.fn = "generateShareableLink"

\* the keys of the parameters of a query string whose values parse as numbers
ParsingKeys(queryString) ==
  LET pairs == parseParams(queryString)
  IN { Head(pairs[i][1]) :
         i \in { j \in 1 .. Len(pairs) :
                   pairs[j][1] # << >> /\ ~IsNaN(parseFloat(pairs[j][2])) } }

\* C17: for a record whose 16 fields are finite numbers, parseShareableLink
\* applied to the query string of generateShareableLink's link returns a
\* record with the same keys and the same numeric values; and in every call a
\* parameter whose value does not parse as a number is left out of the result,
\* which holds no NaN.
C17_ShareLinkRoundTrip ==
  /\ (/\ LinkRoundTripReturned
      /\ \A k \in FieldNameSet : IsFinite(fieldNumber(prev.args.inputs, k))) =>
       call.ret = [k \in FieldNameSet |-> fieldNumber(prev.args.inputs, k)]
  /\ call.fn = "parseShareableLink" =>
       /\ DOMAIN call.ret = ParsingKeys(call.args.queryString)
       /\ \A k \in DOMAIN call.ret : ~IsNaN(call.ret[k])

C17_Witness ==
  /\ LinkRoundTripReturned
  /\ Lt(prev.args.inputs.salaryGrowthRate, R(1, 1000000))
  /\ Gt(prev.args.inputs.salaryGrowthRate, Zero)
  /\ DOMAIN call.ret = FieldNameSet
  /\ call.ret.salaryGrowthRate = prev.args.inputs.salaryGrowthRate
  /\ call.ret.taxRate = R(22, 100)

\* C18: recalculation is debounced by 500 ms: the component renders, and from
\* then on at most one recalculation is pending; one is pending for the
\* current inputs until it has run for them (every change cancels the pending
\* one and schedules a new one); a recalculation runs 500 ms or more after the
\* last change and with the latest input record.
C18_Debounced ==
  ui.status # "unmounted" =>
    /\ ui.status = "mounted"
    /\ Len(ui.timers) <= 1
    /\ \/ Len(ui.timers) = 1 /\ ui.timers[1].inputs = ui.inputs
       \/ Len(ui.timers) = 0 /\ ui.calculated.for = ui.inputs
    /\ \A k \in 1 .. Len(ui.ran) :
         ui.ran[k].sinceChange >= DebounceDelay /\ ui.ran[k].latest

\* the render has failed: nothing is scheduled and nothing is calculated
C18_Witness == ui.status = "crashed"
\* C21: when retirementShortfall > 0, recommendedMonthlySavings is
\* calculateRequiredSavings(retirementShortfall * (lifeExpectancy -
\* retirementAge) + retirementValue, currentSavings, expectedReturn,
\* retirementAge - currentAge, inflationRate), with the expectedReturn of the
\* inputs, not its half.
C21_RecommendedSavings ==
  (ProjectionsReturned /\ Gt(call.ret.retirementShortfall, Zero)) =>
    LET a == call.args
        r == call.ret
        additionalNeeded == Mul(r.retirementShortfall, Num(YearsOfRetirement(a)))
    IN r.recommendedMonthlySavings =
         calculateRequiredSavings(Add(additionalNeeded, r.retirementValue),
                                  a.currentSavings, a.expectedReturn,
                                  YearsToRetirement(a), a.inflationRate)

C21_Witness ==
  /\ ProjectionsReturned
  /\ Gt(call.ret.retirementShortfall, Zero)
  /\ call.args.expectedReturn = Num(24)
  /\ call.args.inflationRate = Zero
  /\ YearsToRetirement(call.args) = 1
  /\ IsFinite(call.ret.recommendedMonthlySavings)
  /\ Gt(call.ret.recommendedMonthlySavings, Zero)
\* the record with its two rates replaced
WithRates(inp, rates) ==
  [inp EXCEPT !.expectedReturn = rates[1], !.inflationRate = rates[2]]

\* calculateScenarios ignores the rates of its base inputs: bases that differ
\* in them alone get the same ScenarioComparison (the calendar years being
\* those of the host clock)
ScenariosIgnoreBaseRates ==
  call.fn = "calculateScenarios" =>
    \A rates \in ScenarioRatePairs \cup RatePairs :
      ScenariosWithoutYears(calculateScenarios(WithRates(call.args, rates), now)) =
        ScenariosWithoutYears(call.ret)

\* calculateProjections(base) has returned after calculateScenarios(base)
ProjectionsAfterScenarios ==
  /\ ProjectionsReturned
  /\ prev.fn = "calculateScenarios"
  /\ call.args = prev.args

HasModerateRates(inp) ==
  inp.expectedReturn = moderateReturn /\ inp.inflationRate = moderateInflation

AtSortedIndex(trials, j, v) ==
  /\ \E k \in 1 .. Len(trials) : trials[k] = v
  /\ Cardinality({k \in 1 .. Len(trials) : Lt(trials[k], v)}) <= j
  /\ j < Cardinality({k \in 1 .. Len(trials) : Le(trials[k], v)})

\* C23: monteCarloSimulation returns as median, percentile25, percentile75 and
\* percentile95 the elements at index floor(N * 0.5), floor(N * 0.25),
\* floor(N * 0.75) and floor(N * 0.95) of the N trial balances sorted
\* ascending; for every N >= 1 each index is within 0 .. N - 1, so each
\* percentile is one of the trial balances.
C23_PercentileIndices ==
  call.fn = "monteCarloSimulation" =>
    LET N == call.args.iterations
        t == call.trials
    IN /\ N >= 1 /\ Len(t) = N
       /\ \A j \in {(N * 1) \div 2, (N * 1) \div 4, (N * 3) \div 4, (N * 19) \div 20} :
            j \in 0 .. N - 1
       /\ AtSortedIndex(t, (N * 1) \div 2, call.ret.median)
       /\ AtSortedIndex(t, (N * 1) \div 4, call.ret.percentile25)
       /\ AtSortedIndex(t, (N * 3) \div 4, call.ret.percentile75)
       /\ AtSortedIndex(t, (N * 19) \div 20, call.ret.percentile95)

\* three trials with three different balances: index 0, 1, 2 and 2
C23_Witness ==
  /\ call.fn = "monteCarloSimulation"
  /\ call.args.iterations = 3
  /\ Lt(call.ret.percentile25, call.ret.median)
  /\ Lt(call.ret.median, call.ret.percentile75)
  /\ call.ret.percentile75 = call.ret.percentile95
  /\ call.trials[1] = call.ret.percentile95
\* the terminal balance of the projector's loop on the given record
LoopBalance(inputs, fullYear) ==
  projectionLoop(inputs, projectionStart(inputs), fullYear).totalSavings

\* the step is one trial on a copy of the caller's record in which only
\* expectedReturn differs, by (u - 0.5) * 0.15 for a draw u
TrialStep ==
  /\ locals'.i = locals.i + 1
  /\ callerInputs' = callerInputs
  /\ \E u \in RandomDraws :
       LET perturbed == Add(callerInputs.expectedReturn,
                            Mul(Sub(u, R(1, 2)), R(15, 100)))
           copy == [callerInputs EXCEPT !.expectedReturn = perturbed]
       IN /\ Ge(perturbed, Sub(callerInputs.expectedReturn, R(75, 1000)))
          /\ Lt(perturbed, Add(callerInputs.expectedReturn, R(75, 1000)))
          /\ locals'.results = Append(locals.results, LoopBalance(copy, now))

\* C24: every monteCarloSimulation trial runs the projector on a copy of
\* inputs in which only expectedReturn differs, set to expectedReturn +
\* (u - 0.5) * 0.15 for a draw u in [0, 1), so the trial's return lies in
\* [expectedReturn - 0.075, expectedReturn + 0.075); each trial records that
\* run's retirementValue and exactly `iterations` trials are run.
C24_TrialsPerturbReturnOnly ==
  /\ [][(pc = "monteCarloSimulation" /\ pc' = "monteCarloSimulation"
          /\ locals' # locals) => TrialStep]_vars
  /\ [](pc = "monteCarloSimulation" =>
          Len(locals.results) = locals.i /\ locals.i <= locals.iterations)
  /\ [](call.fn = "monteCarloSimulation" =>
          Len(call.trials) = call.args.iterations)

\* trials below, at and above the balance of the unperturbed record
C24_Witness ==
  /\ call.fn = "monteCarloSimulation"
  /\ call.args.iterations = 3
  /\ Lt(call.trials[1], LoopBalance(call.args.inputs, now))
  /\ call.trials[2] = LoopBalance(call.args.inputs, now)
  /\ Gt(call.trials[3], LoopBalance(call.args.inputs, now))
\* the call returned is calculateSocialSecurity(E, fra, fra)
FullAgeBenefitReturned ==
  /\ SocialSecurityReturned
  /\ call.args.claimingAge = call.args.fullRetirementAge

\* C25: calculateSocialSecurity(E, fra, fra) is 0.9 * min(E, 1174) + 0.32 *
\* max(0, min(E, 7078) - 1174) + 0.15 * max(0, E - 7078) for every E >= 0; it
\* is non-decreasing in E and continuous at both bend points: between any two
\* earnings it rises by no more than 0.9 of their difference, and by 0.32 or
\* 0.15 of it above the first and the second bend point.
C25_BendPointFormula ==
  FullAgeBenefitReturned =>
    LET E == call.args.averageIndexedMonthlyEarnings
        fra == call.args.fullRetirementAge
    IN /\ call.ret =
            Add(Add(Mul(R(9, 10), MathMin(E, Num(1174))),
                    Mul(R(32, 100),
                        MathMax(Zero, Sub(MathMin(E, Num(7078)), Num(1174))))),
                Mul(R(15, 100), MathMax(Zero, Sub(E, Num(7078)))))
       /\ \A lower \in EarningsValues :
            Le(lower, E) =>
              LET rise == Sub(call.ret, calculateSocialSecurity(lower, fra, fra))
                  step == Sub(E, lower)
              IN /\ Ge(rise, Zero)
                 /\ Le(rise, Mul(R(9, 10), step))
                 /\ Ge(lower, Num(1174)) => Le(rise, Mul(R(32, 100), step))
                 /\ Ge(lower, Num(7078)) => rise = Mul(R(15, 100), step)

\* twenty units above the second bend point the benefit is 3 above the benefit
\* at the bend point
C25_Witness ==
  /\ FullAgeBenefitReturned
  /\ call.args.averageIndexedMonthlyEarnings = Num(7098)
  /\ call.ret = Add(calculateSocialSecurity(Num(7078), 67, 67), Num(3))
\* the number of months the returned call claims before (after) full
\* retirement age
EarlyMonths == (call.args.fullRetirementAge - call.args.claimingAge) * 12
LateMonths == (call.args.claimingAge - call.args.fullRetirementAge) * 12

ClaimsEarly == EarlyMonths > 0
ClaimsLate == LateMonths > 0
ClaimsAtFullAge == call.args.claimingAge = call.args.fullRetirementAge

\* C26: calculateSocialSecurity multiplies the primary benefit by
\* 1 - (min(36, m) * 0.00555 + max(0, m - 36) * 0.00417) when claiming m months
\* early, by 1 + m * 0.00667 when claiming m months late, and leaves it
\* unchanged when claimingAge = fra; exactly one of the three cases applies.
C26_ClaimingAdjustment ==
  SocialSecurityReturned =>
    /\ ClaimsEarly =>
         /\ ~ClaimsLate /\ ~ClaimsAtFullAge
         /\ call.ret =
              Mul(FullBenefit,
                  Sub(One, Add(Mul(MathMin(Num(36), Num(EarlyMonths)), R(555, 100000)),
                               Mul(MathMax(Zero, Num(EarlyMonths - 36)),
                                   R(417, 100000)))))
    /\ ClaimsLate =>
         /\ ~ClaimsEarly /\ ~ClaimsAtFullAge
         /\ call.ret = Mul(FullBenefit, Add(One, Mul(Num(LateMonths), R(667, 100000))))
    /\ ClaimsAtFullAge =>
         /\ ~ClaimsEarly /\ ~ClaimsLate
         /\ call.ret = primaryInsuranceAmount(call.args.averageIndexedMonthlyEarnings)
    /\ ClaimsEarly \/ ClaimsLate \/ ClaimsAtFullAge

\* claiming 60 months early: 36 months at 0.00555 and 24 months at 0.00417
\* leave 0.70012 of a positive benefit
C26_Witness ==
  /\ SocialSecurityReturned
  /\ EarlyMonths = 60
  /\ Gt(FullBenefit, Zero)
  /\ call.ret = Mul(FullBenefit, R(70012, 100000))
\* the returned call is futureValue applied to what calculateRequiredSavings
\* returned before it
FutureValueOfRequiredSavings ==
  call.fn = "futureValue" /\ prev.fn = "calculateRequiredSavings"

\* the real monthly rate of the returned calculateRequiredSavings call
RealMonthlyRate ==
  Div(Sub(Div(Add(One, call.args.annualReturn), Add(One, call.args.inflationRate)),
          One),
      Num(12))

\* C27: whenever calculateRequiredSavings(T, S, r, n, i) returns m > 0 with
\* n > 0, futureValue(S, m, (1 + r) / (1 + i) - 1, n) equals T; when the real
\* monthly rate is exactly 0 and T > S, m equals (T - S) / (12 * n).
C27_RequiredSavingsReachTarget ==
  /\ (FutureValueOfRequiredSavings /\ Gt(prev.ret, Zero) /\ prev.args.years > 0) =>
       /\ call.args.principal = prev.args.currentSavings
       /\ call.args.monthlyPayment = prev.ret
       /\ call.args.years = prev.args.years
       /\ call.ret = prev.args.targetAmount
  /\ (/\ call.fn = "calculateRequiredSavings"
      /\ RealMonthlyRate = Zero
      /\ Gt(call.args.targetAmount, call.args.currentSavings)) =>
       call.ret = Div(Sub(call.args.targetAmount, call.args.currentSavings),
                      Num(12 * call.args.years))

\* positive savings that fall short of the target at a real monthly rate of 1:
\* the amount returned makes up the difference
C27_Witness ==
  /\ FutureValueOfRequiredSavings
  /\ prev.args.years > 0
  /\ Gt(prev.args.currentSavings, Zero)
  /\ call.args.annualRate = Num(12)
  /\ Gt(prev.ret, Zero)
  /\ call.ret = prev.args.targetAmount
\* the entries' totalContribution (interestEarned) added up in insertion order
RECURSIVE SumOfTotalContribution(_)
SumOfTotalContribution(entries) ==
  IF entries = << >> THEN Zero
  ELSE Add(SumOfTotalContribution(SubSeq(entries, 1, Len(entries) - 1)),
           entries[Len(entries)].totalContribution)

RECURSIVE SumOfInterestEarned(_)
SumOfInterestEarned(entries) ==
  IF entries = << >> THEN Zero
  ELSE Add(SumOfInterestEarned(SubSeq(entries, 1, Len(entries) - 1)),
           entries[Len(entries)].interestEarned)

\* the balance is the starting savings plus the two running totals
BalanceAccounted(savings, balance, contributions, interest) ==
  balance = Add(Add(savings, contributions), interest)

\* C28: before and after every loop iteration of calculateProjections,
\* totalSavings = currentSavings + totalContributions + totalInterestEarned,
\* the running totals being the sums over the entries pushed so far.
LoopAccounted ==
  pc = "calculateProjections" =>
    /\ BalanceAccounted(callerInputs.currentSavings, locals.totalSavings,
                        locals.totalContributions, locals.totalInterestEarned)
    /\ locals.totalContributions = SumOfTotalContribution(locals.yearlyData)
    /\ locals.totalInterestEarned = SumOfInterestEarned(locals.yearlyData)
    /\ locals.yearlyData # << >> =>
         locals.yearlyData[Len(locals.yearlyData)].totalSavings = locals.totalSavings

\* C28, the result: retirementValue = currentSavings + totalContributions +
\* totalInterestEarned, totalContributions is the sum of the entries'
\* totalContribution, totalInterestEarned the sum of their interestEarned, and
\* retirementValue is the last entry's totalSavings.
ResultAccounted ==
  ProjectionsReturned =>
    /\ BalanceAccounted(call.args.currentSavings, call.ret.retirementValue,
                        call.ret.totalContributions, call.ret.totalInterestEarned)
    /\ call.ret.totalContributions = SumOfTotalContribution(call.ret.yearlyData)
    /\ call.ret.totalInterestEarned = SumOfInterestEarned(call.ret.yearlyData)
    /\ call.ret.yearlyData # << >> =>
         call.ret.yearlyData[Len(call.ret.yearlyData)].totalSavings =
           call.ret.retirementValue

\* C28: the accounting identity of the projector holds after every loop
\* iteration and in the result.
C28_AccountingIdentity == LoopAccounted /\ ResultAccounted

\* a result of two or more entries with savings to start from, contributions
\* and interest earned
C28_Witness ==
  /\ ProjectionsReturned
  /\ Len(call.ret.yearlyData) >= 2
  /\ Gt(call.args.currentSavings, Zero)
  /\ Gt(call.ret.totalContributions, Zero)
  /\ Gt(call.ret.totalInterestEarned, Zero)
  /\ call.ret.retirementValue =
       Add(Add(call.args.currentSavings, call.ret.totalContributions),
           call.ret.totalInterestEarned)
\* retirementAge < currentAge in the record passed to calculateProjections
RetiresBeforeCurrentAge(inputs) == inputs.retirementAge < inputs.currentAge

\* C29: when retirementAge < currentAge, calculateProjections executes no loop
\* iteration (its locals stay as initialised, the loop condition is false and
\* the record to return is defined): yearlyData is empty, totalContributions and totalInterestEarned
\* are 0, and retirementValue equals currentSavings.
C29_NoIterationBeforeCurrentAge ==
  /\ (pc = "calculateProjections" /\ RetiresBeforeCurrentAge(callerInputs)) =>
       /\ locals.year = 0
       /\ locals.yearlyData = << >>
       /\ locals.totalSavings = callerInputs.currentSavings
       /\ ~projectionContinues(callerInputs, locals)
       /\ projectionResults(callerInputs, locals).yearlyData = << >>
  /\ (ProjectionsReturned /\ RetiresBeforeCurrentAge(call.args)) =>
       /\ call.ret.yearlyData = << >>
       /\ call.ret.totalContributions = Zero
       /\ call.ret.totalInterestEarned = Zero
       /\ call.ret.retirementValue = call.args.currentSavings

\* a returned record for a retirement age one year before the current age,
\* with savings and a monthly contribution
C29_Witness ==
  /\ ProjectionsReturned
  /\ call.args.retirementAge = call.args.currentAge - 1
  /\ Gt(call.args.currentSavings, Zero)
  /\ Gt(call.args.monthlyContribution, Zero)
  /\ call.ret.yearlyData = << >>
  /\ call.ret.retirementValue = call.args.currentSavings
\* entry k (0-based) has age currentAge + k; the first entry has the salary and
\* the monthly contribution of the inputs
AgesConsecutive(inputs, entries) ==
  /\ \A k \in 1 .. Len(entries) : entries[k].age = inputs.currentAge + (k - 1)
  /\ entries # << >> =>
       /\ entries[1].salary = inputs.currentSalary
       /\ entries[1].monthlyContribution = inputs.monthlyContribution

\* entry k (0-based) has the calendar year of entry 0 plus k
YearsConsecutive(entries) ==
  \A k \in 1 .. Len(entries) : entries[k].year = entries[1].year + (k - 1)

\* the last entry has age retirementAge
LastAtRetirementAge(inputs, entries) ==
  entries # << >> => entries[Len(entries)].age = inputs.retirementAge

YearsIncreasing(entries) ==
  \A k \in 1 .. Len(entries) :
    /\ entries[k].year - (k - 1) \in ClockStart .. now
    /\ k > 1 => entries[k].year >= entries[k - 1].year + 1

\* a loop iteration pushes one entry, whose year is the calendar year the
\* host shows in that iteration plus the loop index
IterationStampsYear ==
  /\ Len(locals'.yearlyData) = Len(locals.yearlyData) + 1
  /\ locals'.yearlyData[Len(locals'.yearlyData)].year = now + locals.year
  /\ locals.year = Len(locals.yearlyData)

====
